---- MODULE Spec2Model ----
(***************************************************************************)
(* State-machine model of mcp-perforce-server: the Command Runner          *)
(* (src/src/p4/runner.ts), the tool functions that call it                 *)
(* (src/src/tools/*.ts) and the rate limiter of the SecurityManager.       *)
(*                                                                         *)
(* Text (stdout, stderr, spec text, file paths) is a sequence of tokens;   *)
(* a token is a character or an indivisible phrase.  Substring tests of    *)
(* the source (String.includes) are contiguous-subsequence tests here.     *)
(***************************************************************************)
EXTENDS Integers, Sequences, FiniteSets, TLC

VARIABLES
    serverConfig,   \* P4ServerConfig {readOnlyMode, disableDelete}
    processEnv,     \* process.env restricted to the Perforce keys
    configFile,     \* what findConfig discovers on disk
    pc,             \* position of the tool call in flight
    call,           \* the tool call in flight: tool, args, run options
    child,          \* the spawned subprocess of the runner call in flight
    timeoutHandle,  \* the runner's timer
    envelope,       \* the P4RunResult returned to the tool's caller
    now,            \* Date.now() as seen by the rate limiter
    rateLimitStore, \* SecurityManager.rateLimitStore
    rateConfig,     \* RateLimitConfig in force
    complianceConfig,   \* SecurityManager.complianceConfig
    checksInWindow, \* history: checks of an identifier since its window was created
    lastCheck,      \* history: the last checkRateLimit call and what it returned
    auditLog,       \* SecurityManager.auditLog
    lastHandled,    \* history: the last tool invocation handled by the front-end
    lastQuery,      \* history: the last call of an audit-log method and its result
    cleanupTimer,   \* the daily setInterval of cleanupAuditLogs is registered
    pureCall,       \* the last call of a pure function: its name and arguments
    pureResult,     \* what that call returned
    inFlight        \* the tool invocations of the front-end and how far each has got

toolVars == <<serverConfig, processEnv, configFile, pc, call, child, timeoutHandle, envelope>>
rateVars == <<now, rateLimitStore, rateConfig, complianceConfig, checksInWindow, lastCheck>>
auditVars == <<auditLog, lastHandled, lastQuery, cleanupTimer>>
pureVars == <<pureCall, pureResult>>
flightVars == <<inFlight>>
vars == <<toolVars, rateVars, auditVars, pureVars, flightVars>>

Undef == "<undefined>"

---------------------------------------------------------------------------
(* Text helpers: JavaScript String operations on token sequences.          *)

Whitespace == {" ", "\n"}

Includes(text, pat) ==
    \E i \in 0..(Len(text) - Len(pat)) : SubSeq(text, i + 1, i + Len(pat)) = pat

IsBlank(text) == \A i \in 1..Len(text) : text[i] \in Whitespace

RECURSIVE TrimStart(_)
TrimStart(text) ==
    IF text # <<>> /\ Head(text) \in Whitespace THEN TrimStart(Tail(text)) ELSE text

RECURSIVE TrimEnd(_)
TrimEnd(text) ==
    IF text # <<>> /\ text[Len(text)] \in Whitespace
    THEN TrimEnd(SubSeq(text, 1, Len(text) - 1))
    ELSE text

Trim(text) == TrimEnd(TrimStart(text))

RECURSIVE SplitLines(_)
SplitLines(text) ==
    IF \E i \in 1..Len(text) : text[i] = "\n"
    THEN LET i == CHOOSE j \in 1..Len(text) :
                     text[j] = "\n" /\ \A k \in 1..(j - 1) : text[k] # "\n"
         IN  <<SubSeq(text, 1, i - 1)>> \o SplitLines(SubSeq(text, i + 1, Len(text)))
    ELSE <<text>>

RECURSIVE FilterNonBlank(_)
FilterNonBlank(lines) ==
    IF lines = <<>> THEN <<>>
    ELSE IF IsBlank(Head(lines)) THEN FilterNonBlank(Tail(lines))
         ELSE <<Head(lines)>> \o FilterNonBlank(Tail(lines))

\* JavaScript truthiness of an optional atom string (an environment value)
Truthy(s) == s # Undef /\ s # ""

\* An optional text that is absent (undefined)
UndefText == <<Undef>>
TruthyText(t) == t # UndefText /\ t # <<>>

---------------------------------------------------------------------------
(* P4Runner: pure parts.                                                   *)

DEFAULT_TIMEOUT == 60000
DefaultMaxMemoryMB == 512

EnvKeys == {"P4PORT", "P4USER", "P4CLIENT", "P4CHARSET", "P4PASSWD", "P4CONFIG"}
NoEnv == [k \in EnvKeys |-> Undef]

\* {...a, ...b}
Spread(a, b) == [k \in EnvKeys |-> IF b[k] # Undef THEN b[k] ELSE a[k]]

\* an environment in which the variables of the process win over the env option
buildProcessEnv_ProcessEnvWins(env) ==
    [Spread(env, processEnv) EXCEPT !["P4CONFIG"] =
        IF Truthy(env["P4CONFIG"]) THEN env["P4CONFIG"]
        ELSE IF Truthy(processEnv["P4CONFIG"]) THEN processEnv["P4CONFIG"]
        ELSE ".p4config"]

buildProcessEnv(env) ==
    [Spread(processEnv, env) EXCEPT !["P4CONFIG"] =
        IF Truthy(env["P4CONFIG"]) THEN env["P4CONFIG"]
        ELSE IF Truthy(processEnv["P4CONFIG"]) THEN processEnv["P4CONFIG"]
        ELSE ".p4config"]

configKeys == {"P4PORT", "P4USER", "P4CLIENT", "P4CHARSET", "P4PASSWD"}
Masked == "***masked***"

extractConfigFromEnv(env) ==
    [k \in EnvKeys \cup {"p4configPath"} |->
        IF k \in configKeys /\ Truthy(env[k])
        THEN (IF k = "P4PASSWD" THEN Masked ELSE env[k])
        ELSE Undef]

NoConfigUsed == [k \in EnvKeys \cup {"p4configPath"} |-> Undef]

NoError == [code |-> Undef, stderr |-> <<>>, exitCode |-> 0, details |-> <<>>]

ErrorRecord(code, errorMessage, stderr, exitCode) ==
    [code |-> code, stderr |-> stderr, exitCode |-> exitCode, details |-> errorMessage]

mapError(exitCode, stderr, stdout) ==
    LET errorMessage == IF stderr # <<>> THEN stderr
                        ELSE IF stdout # <<>> THEN stdout ELSE <<"Unknown error">>
        E(code) == ErrorRecord(code, errorMessage, stderr, exitCode)
    IN  IF Includes(errorMessage, <<"Perforce client error">>)
           \/ exitCode = 127 \/ exitCode = -1 THEN E("P4_NOT_FOUND")
        ELSE IF Includes(errorMessage, <<"Perforce password">>)
                \/ Includes(errorMessage, <<"Access denied">>) THEN E("P4_AUTH_FAILED")
        ELSE IF Includes(errorMessage, <<"Client '">>)
                /\ Includes(errorMessage, <<"' unknown">>) THEN E("P4_CLIENT_UNKNOWN")
        ELSE IF Includes(errorMessage, <<"Connect to server failed">>)
                \/ Includes(errorMessage, <<"TCP connect">>) THEN E("P4_CONNECTION_FAILED")
        ELSE IF Includes(errorMessage, <<"timeout">>)
                \/ Includes(errorMessage, <<"Command ", "timeout">>) THEN E("P4_TIMEOUT")
        ELSE IF Includes(errorMessage, <<"not under client">>) THEN E("P4_NOT_UNDER_CLIENT")
        ELSE E("P4_COMMAND_FAILED")

\* String(new Error(`Command timeout after ${options.timeout}ms`))
TimeoutErrorText == <<"Error: ", "Command ", "timeout", " after ", "ms">>
\* String(error) of a spawn failure (ENOENT and the like)
SpawnErrorText == <<"Error: ", "spawn p4 ENOENT">>

---------------------------------------------------------------------------
(* Values of P4RunResult.result.                                           *)

Value(kind, text, items) == [kind |-> kind, text |-> text, items |-> items]
NoValue == Value("undefined", <<>>, <<>>)
NullValue == Value("null", <<>>, <<>>)
StringValue(t) == Value("string", t, <<>>)

\* JavaScript truthiness of a result value: null, undefined and '' are falsy,
\* every array and object is truthy
TruthyValue(v) == v.kind \notin {"undefined", "null"} /\ ~(v.kind = "string" /\ v.text = <<>>)

WordTokens == {"key1", "key2", "x"}

\* /^\.\.\. (\w+)\s+(.*)$/ on a trimmed line
ZtagMatch(line) ==
    Len(line) >= 3 /\ line[1] = "... " /\ line[2] \in WordTokens /\ line[3] = " "

RECURSIVE ZtagRecords(_, _)
\* the loop of runner.parseZtagOutput: lines left, record under construction
ZtagRecords(lines, currentRecord) ==
    IF lines = <<>>
    THEN (IF currentRecord # <<>> THEN <<currentRecord>> ELSE <<>>)
    ELSE LET trimmedLine == Trim(Head(lines)) IN
         IF trimmedLine = <<>>
         THEN (IF currentRecord # <<>> THEN <<currentRecord>> ELSE <<>>)
              \o ZtagRecords(Tail(lines), <<>>)
         ELSE IF ZtagMatch(trimmedLine)
              THEN ZtagRecords(Tail(lines),
                       Append(currentRecord,
                              <<trimmedLine[2], TrimStart(SubSeq(trimmedLine, 4, Len(trimmedLine)))>>))
              ELSE ZtagRecords(Tail(lines), currentRecord)

runnerParseZtagOutput(output) ==
    LET results == ZtagRecords(SplitLines(output), <<>>)
    IN  IF Len(results) = 1 THEN Value("object", <<>>, results[1])
        ELSE Value("array", <<>>, results)

parseMarshaled(output) == Value("object", output, <<>>)

\* line.indexOf(': ') > 0
ColonIndex(line) ==
    IF \E i \in 1..Len(line) : line[i] = ": "
    THEN CHOOSE i \in 1..Len(line) : line[i] = ": " /\ \A k \in 1..(i - 1) : line[k] # ": "
    ELSE 0

RECURSIVE ColonFields(_)
ColonFields(lines) ==
    IF lines = <<>> THEN <<>>
    ELSE LET line == Head(lines)
             i == ColonIndex(line)
         IN  (IF i > 1
              THEN <<<<Trim(SubSeq(line, 1, i - 1)), Trim(SubSeq(line, i + 1, Len(line)))>>>>
              ELSE <<>>) \o ColonFields(Tail(lines))

parseTextOutput(output) ==
    LET lines == FilterNonBlank(SplitLines(output))
    IN  IF \E n \in 1..Len(lines) : Includes(lines[n], <<": ">>)
        THEN LET result == ColonFields(lines)
             IN  IF result # <<>> THEN Value("object", <<>>, result)
                 ELSE Value("array", <<>>, lines)
        ELSE Value("array", <<>>, lines)

runnerParseOutput(output, useZtag, useMarshalled) ==
    IF Trim(output) = <<>> THEN NullValue
    ELSE IF useMarshalled THEN parseMarshaled(output)
    ELSE IF useZtag THEN runnerParseZtagOutput(output)
    ELSE parseTextOutput(output)

---------------------------------------------------------------------------
(* P4Runner.run: the envelope built from the outcome of the subprocess.    *)

Envelope(ok, configUsed, result, hasWarnings, warnings, hasError, error) ==
    [ok |-> ok, configUsed |-> configUsed, result |-> result,
     hasWarnings |-> hasWarnings, warnings |-> warnings,
     hasError |-> hasError, error |-> error]

NoEnvelope == Envelope(FALSE, NoConfigUsed, NoValue, FALSE, <<>>, FALSE, NoError)

FailureEnvelope(configUsed, error) ==
    Envelope(FALSE, configUsed, NoValue, FALSE, <<>>, TRUE, error)

\* an early return of a tool function: { ok: false, configUsed: {}, error: { code } }
Rejection(code) == FailureEnvelope(NoConfigUsed, ErrorRecord(code, <<>>, <<>>, 0))

\* runner.ts 66-78
MemoryLimitEnvelope == Rejection("P4_MEMORY_LIMIT")

\* code ?? -1 ; a null code is the empty set, a number n the set {n}
ExitCodeOf(code) == IF code = {} THEN -1 ELSE CHOOSE n \in code : TRUE

\* a runner that reports stderr lines as warnings whatever the exit code
runResolved_WarningsOnFailure(opts, penv, exitCode, stdout, stderr) ==
    Envelope(exitCode = 0, extractConfigFromEnv(penv),
             IF exitCode = 0 /\ Trim(stdout) # <<>> THEN StringValue(Trim(stdout))
             ELSE NullValue,
             Trim(stderr) # <<>>,
             IF Trim(stderr) # <<>> THEN FilterNonBlank(SplitLines(stderr)) ELSE <<>>,
             exitCode # 0,
             IF exitCode # 0 THEN mapError(exitCode, stderr, stdout) ELSE NoError)

\* runner.ts 121-135: the outcome of a resolved spawnP4Process
runResolved(opts, penv, exitCode, stdout, stderr) ==
    IF exitCode = 0
    THEN Envelope(TRUE, extractConfigFromEnv(penv),
                  IF opts.parseOutput /\ Trim(stdout) # <<>>
                  THEN runnerParseOutput(stdout, opts.useZtag, opts.useMarshalled)
                  ELSE IF Trim(stdout) # <<>> THEN StringValue(Trim(stdout)) ELSE NullValue,
                  Trim(stderr) # <<>>,
                  IF Trim(stderr) # <<>> THEN FilterNonBlank(SplitLines(stderr)) ELSE <<>>,
                  FALSE, NoError)
    ELSE FailureEnvelope(extractConfigFromEnv(penv), mapError(exitCode, stderr, stdout))

\* runner.ts 137-139: the outcome of a rejected spawnP4Process
runRejected(penv, errorText) ==
    FailureEnvelope(extractConfigFromEnv(penv), mapError(-1, errorText, <<>>))

---------------------------------------------------------------------------
(* Configuration Resolver (P4Config), over the discovered config file.     *)

DEFAULT_CONFIG_NAME == ".p4config"
ConfigPath == "/proj/.p4config"

buildEnvironment(config, configName) ==
    [k \in EnvKeys |->
        IF k = "P4CONFIG" THEN configName
        ELSE IF Truthy(config[k]) THEN config[k] ELSE Undef]

findConfig ==
    LET configName == IF Truthy(processEnv["P4CONFIG"]) THEN processEnv["P4CONFIG"]
                      ELSE DEFAULT_CONFIG_NAME
    IN  IF configFile.state = "present"
        THEN [found |-> TRUE, configPath |-> ConfigPath, config |-> configFile.config,
              environment |-> buildEnvironment(configFile.config, configName)]
        ELSE [found |-> FALSE, configPath |-> Undef, config |-> NoEnv,
              environment |-> [NoEnv EXCEPT !["P4CONFIG"] = configName]]

\* { cwd, env, configResult }: env is configResult.environment
setupForCommand == findConfig

requiredKeys == <<"P4PORT", "P4USER", "P4CLIENT">>

\* the list of problems reported; valid iff it is empty
validateEnvironment(configResult) ==
    LET Missing(key) ==
            IF ~Truthy(configResult.config[key]) /\ ~Truthy(processEnv[key])
            THEN <<<<"Required configuration missing: ", key>>>> ELSE <<>>
    IN  (IF configResult.found THEN <<>> ELSE <<<<"No .p4config file found">>>>)
        \o Missing(requiredKeys[1]) \o Missing(requiredKeys[2]) \o Missing(requiredKeys[3])

---------------------------------------------------------------------------
(* SecurityManager.sanitizeInput, input kind filespec.                     *)

ShellMeta == {"<", ">", "|", ";", "&", "$"}

RECURSIVE StripShellMeta(_)
StripShellMeta(text) ==
    IF text = <<>> THEN <<>>
    ELSE IF Head(text) \in ShellMeta THEN StripShellMeta(Tail(text))
         ELSE <<Head(text)>> \o StripShellMeta(Tail(text))

\* warnings are named by their text; only a text containing "dangerous" invalidates
DangerousWarnings == {"Potentially dangerous regex pattern detected"}

sanitizeFilespec(input) ==
    IF ~complianceConfig.enableInputSanitization
    THEN [sanitized |-> input, valid |-> TRUE, warnings |-> {}]
    ELSE LET sanitized == Trim(input)
             warnings ==
                 (IF Includes(sanitized, <<"..">>)
                     /\ ~(Len(sanitized) >= 2 /\ SubSeq(sanitized, 1, 2) = <<"/", "/">>)
                  THEN {"Relative path traversal detected in filespec"} ELSE {})
                 \cup
                 (IF Includes(sanitized, <<"*">>) /\ Includes(sanitized, <<"..">>)
                  THEN {"Wildcard with path traversal detected"} ELSE {})
         IN  [sanitized |-> StripShellMeta(sanitized),
              valid |-> warnings \cap DangerousWarnings = {},
              warnings |-> warnings]

---------------------------------------------------------------------------
(* SecurityManager.sanitizeInput, all input kinds.  A text is a sequence   *)
(* of characters; LongRun stands for a run of PatternMaxLength - 2 letters *)
(* "a" and is used at the head of a text only.                             *)

PatternMaxLength == 1000
LongRun == "a{998}"
NullChar == "NUL"

Width(c) == IF c = LongRun THEN PatternMaxLength - 2 ELSE 1

RECURSIVE TextLength(_)
TextLength(text) == IF text = <<>> THEN 0 ELSE Width(Head(text)) + TextLength(Tail(text))

\* String.substring(0, n)
RECURSIVE Substring(_, _)
Substring(text, n) ==
    IF text = <<>> \/ Width(Head(text)) > n THEN <<>>
    ELSE <<Head(text)>> \o Substring(Tail(text), n - Width(Head(text)))

StartsWith(text, prefix) ==
    Len(text) >= Len(prefix) /\ SubSeq(text, 1, Len(prefix)) = prefix

\* /\\0/ : a backslash followed by the digit 0
MatchesNullEscape(text) == Includes(text, <<"\\", "0">>)

\* /\(\?\</ : the opening of a lookbehind
MatchesLookbehind(text) == Includes(text, <<"(", "?", "<">>)

\* /(x*)*y/ : some run of letters x, possibly empty, followed by the letter y
MatchesNestedQuantifier(text) ==
    \E i \in 1..Len(text) : \E j \in i..Len(text) :
        /\ text[j] = "y"
        /\ \A k \in i..(j - 1) : text[k] = "x"

RECURSIVE StripNullChars(_)
StripNullChars(text) ==
    IF text = <<>> THEN <<>>
    ELSE IF Head(text) = NullChar THEN StripNullChars(Tail(text))
         ELSE <<Head(text)>> \o StripNullChars(Tail(text))

sanitizePattern_NoLookbehindTest(input) ==
    LET trimmed == Trim(input)
        tooLong == TextLength(trimmed) > PatternMaxLength
        sanitized == IF tooLong THEN Substring(trimmed, PatternMaxLength) ELSE trimmed
        warnings ==
            (IF tooLong THEN {"Pattern too long, truncated to 1000 characters"} ELSE {})
            \cup
            (IF MatchesNullEscape(sanitized) \/ MatchesNestedQuantifier(sanitized)
             THEN {"Potentially dangerous regex pattern detected"} ELSE {})
    IN  [sanitized |-> sanitized, valid |-> warnings \cap DangerousWarnings = {},
         warnings |-> warnings]

\* case 'pattern' (140-158)
sanitizePattern(input) ==
    LET trimmed == Trim(input)
        tooLong == TextLength(trimmed) > PatternMaxLength
        sanitized == IF tooLong THEN Substring(trimmed, PatternMaxLength) ELSE trimmed
        warnings ==
            (IF tooLong THEN {"Pattern too long, truncated to 1000 characters"} ELSE {})
            \cup
            (IF \/ MatchesNullEscape(sanitized)
                \/ MatchesLookbehind(sanitized)
                \/ MatchesNestedQuantifier(sanitized)
             THEN {"Potentially dangerous regex pattern detected"} ELSE {})
    IN  [sanitized |-> sanitized, valid |-> warnings \cap DangerousWarnings = {},
         warnings |-> warnings]

\* case 'path' (160-170); path.isAbsolute on POSIX: a leading slash
sanitizePath(input) ==
    LET trimmed == Trim(input)
        warnings ==
            (IF StartsWith(trimmed, <<"/">>) /\ ~StartsWith(trimmed, <<"/", "/">>)
             THEN {"Absolute path detected, ensure it's intended"} ELSE {})
            \cup
            (IF Includes(trimmed, <<NullChar>>)
             THEN {"Null bytes detected in path"} ELSE {})
    IN  [sanitized |-> StripNullChars(trimmed), valid |-> warnings \cap DangerousWarnings = {},
         warnings |-> warnings]

sanitizeInput(input, type) ==
    IF ~complianceConfig.enableInputSanitization
    THEN [sanitized |-> input, valid |-> TRUE, warnings |-> {}]
    ELSE IF type = "filespec" THEN sanitizeFilespec(input)
    ELSE IF type = "pattern" THEN sanitizePattern(input)
    ELSE sanitizePath(input)

\* p4Grep up to the check of its pattern (basic.ts 1044-1071)
p4GrepPattern(pattern) ==
    IF ~TruthyText(pattern) THEN "P4_INVALID_ARGS"
    ELSE IF ~sanitizeInput(pattern, "pattern").valid THEN "P4_INVALID_ARGS"
    ELSE "PROCEED"

---------------------------------------------------------------------------
(* Tool functions: argument validation (basic.ts 20-71).                   *)

MaxFiles == 1000
MaxPathLength == 4096
MaxChangelist == 999999
MaxDescriptionLength == 32767

UndefFiles == <<UndefText>>

Digits == {"0", "1", "2", "3", "4", "5", "6", "7", "8", "9"}
DigitValue(d) ==
    CASE d = "0" -> 0 [] d = "1" -> 1 [] d = "2" -> 2 [] d = "3" -> 3 [] d = "4" -> 4
      [] d = "5" -> 5 [] d = "6" -> 6 [] d = "7" -> 7 [] d = "8" -> 8 [] d = "9" -> 9

RECURSIVE parseInt(_)
parseInt(text) ==
    IF text = <<>> THEN 0
    ELSE 10 * parseInt(SubSeq(text, 1, Len(text) - 1)) + DigitValue(text[Len(text)])

validateFiles(files) ==
    /\ files # UndefFiles
    /\ Len(files) # 0
    /\ Len(files) <= MaxFiles
    /\ \A i \in 1..Len(files) :
          /\ Len(files[i]) # 0
          /\ Len(files[i]) <= MaxPathLength
          /\ ~Includes(files[i], <<"..">>)
          /\ files[i][1] # "/"
          /\ files[i][1] # "C:"

validateChangelist(changelist) ==
    /\ changelist # UndefText
    /\ changelist # <<>>
    /\ \A i \in 1..Len(changelist) : changelist[i] \in Digits
    /\ parseInt(changelist) > 0
    /\ parseInt(changelist) <= MaxChangelist

validateWorkspacePath(path) ==
    path = UndefText \/ Len(path) <= MaxPathLength

---------------------------------------------------------------------------
(* Tool functions: the synchronous checks made before anything is run.     *)
(* Each returns the error code of its early return, or Proceed.            *)

Proceed == "PROCEED"

Args(files, changelist, description, source, destination, workspacePath) ==
    [files |-> files, changelist |-> changelist, description |-> description,
     source |-> source, destination |-> destination, workspacePath |-> workspacePath]

NoArgs == Args(UndefFiles, UndefText, UndefText, UndefText, UndefText, UndefText)

p4Add_NoReadOnlyCheck(args) ==
    IF ~validateFiles(args.files) THEN "P4_INVALID_ARGS"
    ELSE IF TruthyText(args.changelist) /\ ~validateChangelist(args.changelist)
         THEN "P4_INVALID_ARGS"
    ELSE IF ~validateWorkspacePath(args.workspacePath) THEN "P4_INVALID_ARGS"
    ELSE Proceed

p4Add(args) ==
    IF ~validateFiles(args.files) THEN "P4_INVALID_ARGS"
    ELSE IF TruthyText(args.changelist) /\ ~validateChangelist(args.changelist)
         THEN "P4_INVALID_ARGS"
    ELSE IF ~validateWorkspacePath(args.workspacePath) THEN "P4_INVALID_ARGS"
    ELSE IF serverConfig.readOnlyMode THEN "P4_READONLY_MODE"
    ELSE Proceed

FilesMissing(files) == files = UndefFiles \/ Len(files) = 0

p4Edit(args) ==
    IF FilesMissing(args.files) THEN "P4_INVALID_ARGS"
    ELSE IF serverConfig.readOnlyMode THEN "P4_READONLY_MODE"
    ELSE Proceed

p4Delete_DeleteCheckFirst(args) ==
    IF FilesMissing(args.files) THEN "P4_INVALID_ARGS"
    ELSE IF serverConfig.disableDelete THEN "P4_DELETE_DISABLED"
    ELSE IF serverConfig.readOnlyMode THEN "P4_READONLY_MODE"
    ELSE Proceed

p4Delete(args) ==
    IF FilesMissing(args.files) THEN "P4_INVALID_ARGS"
    ELSE IF serverConfig.readOnlyMode THEN "P4_READONLY_MODE"
    ELSE IF serverConfig.disableDelete THEN "P4_DELETE_DISABLED"
    ELSE Proceed

p4Revert(args) ==
    IF serverConfig.readOnlyMode THEN "P4_READONLY_MODE" ELSE Proceed

p4Resolve(args) ==
    IF serverConfig.readOnlyMode THEN "P4_READONLY_MODE" ELSE Proceed

p4Shelve(args) ==
    IF ~TruthyText(args.changelist) THEN "P4_INVALID_ARGS"
    ELSE IF serverConfig.readOnlyMode THEN "P4_READONLY_MODE"
    ELSE Proceed

p4Unshelve(args) ==
    IF ~TruthyText(args.changelist) THEN "P4_INVALID_ARGS"
    ELSE IF serverConfig.readOnlyMode THEN "P4_READONLY_MODE"
    ELSE Proceed

p4Copy(args) ==
    IF ~TruthyText(args.source) \/ ~TruthyText(args.destination) THEN "P4_INVALID_ARGS"
    ELSE IF ~sanitizeFilespec(args.source).valid THEN "P4_INVALID_ARGS"
    ELSE IF ~sanitizeFilespec(args.destination).valid THEN "P4_INVALID_ARGS"
    ELSE IF serverConfig.readOnlyMode THEN "P4_READONLY_MODE"
    ELSE Proceed

p4Move(args) ==
    IF ~TruthyText(args.source) \/ ~TruthyText(args.destination) THEN "P4_INVALID_ARGS"
    ELSE IF ~sanitizeFilespec(args.source).valid THEN "P4_INVALID_ARGS"
    ELSE IF ~sanitizeFilespec(args.destination).valid THEN "P4_INVALID_ARGS"
    ELSE IF serverConfig.readOnlyMode THEN "P4_READONLY_MODE"
    ELSE Proceed

p4ChangelistCreate(args) ==
    IF ~TruthyText(args.description) THEN "P4_INVALID_ARGS"
    ELSE IF Trim(args.description) = <<>> THEN "P4_INVALID_ARGS"
    ELSE IF Len(args.description) > MaxDescriptionLength THEN "P4_INVALID_ARGS"
    ELSE IF args.files # UndefFiles /\ Len(args.files) > MaxFiles THEN "P4_INVALID_ARGS"
    ELSE IF args.files # UndefFiles
            /\ \E i \in 1..Len(args.files) :
                   Len(args.files[i]) = 0 \/ Len(args.files[i]) > MaxPathLength
         THEN "P4_INVALID_ARGS"
    ELSE IF TruthyText(args.workspacePath) /\ Len(args.workspacePath) > MaxPathLength
         THEN "P4_INVALID_ARGS"
    ELSE IF serverConfig.readOnlyMode THEN "P4_READONLY_MODE"
    ELSE Proceed

p4ChangelistUpdate(args) ==
    IF ~TruthyText(args.changelist) THEN "P4_INVALID_ARGS"
    ELSE IF serverConfig.readOnlyMode THEN "P4_READONLY_MODE"
    ELSE Proceed

p4ChangelistSubmit(args) ==
    IF ~TruthyText(args.changelist) THEN "P4_INVALID_ARGS"
    ELSE IF serverConfig.readOnlyMode THEN "P4_READONLY_MODE"
    ELSE Proceed

p4Submit(args) ==
    IF ~TruthyText(args.description) \/ Trim(args.description) = <<>> THEN "P4_INVALID_ARGS"
    ELSE IF serverConfig.readOnlyMode THEN "P4_READONLY_MODE"
    ELSE Proceed

p4Info(args) == Proceed

p4Sync(args) == Proceed

p4Describe(args) ==
    IF ~TruthyText(args.changelist) THEN "P4_INVALID_ARGS" ELSE Proceed

WriteTools == {"p4.add", "p4.edit", "p4.delete", "p4.revert", "p4.resolve", "p4.shelve",
               "p4.unshelve", "p4.copy", "p4.move", "p4.changelist.create",
               "p4.changelist.update", "p4.changelist.submit", "p4.submit"}
ReadTools == {"p4.info", "p4.sync", "p4.describe"}
RunnerTools == WriteTools \cup ReadTools

\* server.ts 1030-1117: the dispatch on the tool name
ToolStart(tool, args) ==
    CASE tool = "p4.add" -> p4Add(args)
      [] tool = "p4.edit" -> p4Edit(args)
      [] tool = "p4.delete" -> p4Delete(args)
      [] tool = "p4.revert" -> p4Revert(args)
      [] tool = "p4.resolve" -> p4Resolve(args)
      [] tool = "p4.shelve" -> p4Shelve(args)
      [] tool = "p4.unshelve" -> p4Unshelve(args)
      [] tool = "p4.copy" -> p4Copy(args)
      [] tool = "p4.move" -> p4Move(args)
      [] tool = "p4.changelist.create" -> p4ChangelistCreate(args)
      [] tool = "p4.changelist.update" -> p4ChangelistUpdate(args)
      [] tool = "p4.changelist.submit" -> p4ChangelistSubmit(args)
      [] tool = "p4.submit" -> p4Submit(args)
      [] tool = "p4.info" -> p4Info(args)
      [] tool = "p4.sync" -> p4Sync(args)
      [] tool = "p4.describe" -> p4Describe(args)

---------------------------------------------------------------------------
(* Tool functions: the runner call each makes and what it does with the    *)
(* result.                                                                 *)

RECURSIVE Flatten(_)
Flatten(texts) == IF texts = <<>> THEN <<>> ELSE Head(texts) \o Flatten(Tail(texts))

OrUnknown(v) == IF Truthy(v) THEN v ELSE "unknown"

createChangelistSpec(changelist, description, files, user, client) ==
    <<"Change:">> \o (IF TruthyText(changelist) THEN changelist ELSE <<"new">>)
    \o <<"\n", "Client:", OrUnknown(client), "\n", "User:", OrUnknown(user), "\n",
         "Status:", "new", "\n", "Description:">> \o description \o <<"\n", "Files:">>
    \o (IF files # UndefFiles THEN Flatten(files) ELSE <<>>)

createSubmitSpec(description, files) ==
    <<"Change:", "new", "\n", "Description:">> \o description \o <<"\n", "Files:">>
    \o (IF files # UndefFiles THEN Flatten(files) ELSE <<>>)

Options(parseOutput, useZtag, useMarshalled, timeout, hasStdin, stdin, env, maxMemoryMB) ==
    [parseOutput |-> parseOutput, useZtag |-> useZtag, useMarshalled |-> useMarshalled,
     timeout |-> timeout, hasStdin |-> hasStdin, stdin |-> stdin, env |-> env,
     maxMemoryMB |-> maxMemoryMB]

\* no tool passes timeout, useMarshalled or maxMemoryMB: the defaults of run apply
ToolOptions(parseOutput, useZtag, hasStdin, stdin, env) ==
    Options(parseOutput, useZtag, FALSE, DEFAULT_TIMEOUT, hasStdin, stdin, env,
            DefaultMaxMemoryMB)

ParsingTools == {"p4.resolve", "p4.shelve", "p4.unshelve", "p4.copy", "p4.move",
                 "p4.info", "p4.sync", "p4.describe"}

\* the options of the runner.run call of a tool; phase 1 of p4.changelist.update
\* is its describe call, phase 2 its change -i call
RunOptions(tool, args, phase, env) ==
    CASE tool = "p4.changelist.create" ->
            ToolOptions(FALSE, FALSE, TRUE,
                createChangelistSpec(UndefText, args.description, args.files,
                                     env["P4USER"], env["P4CLIENT"]), env)
      [] tool = "p4.changelist.update" /\ phase = 2 ->
            ToolOptions(FALSE, FALSE, TRUE,
                createChangelistSpec(args.changelist,
                    IF TruthyText(args.description) THEN args.description
                    ELSE <<"Updated changelist">>,
                    args.files, env["P4USER"], env["P4CLIENT"]), env)
      [] tool = "p4.submit" ->
            ToolOptions(FALSE, FALSE, TRUE, createSubmitSpec(args.description, args.files), env)
      [] tool = "p4.describe" -> ToolOptions(TRUE, TRUE, FALSE, <<>>, env)
      [] tool \in ParsingTools \ {"p4.describe"} -> ToolOptions(TRUE, FALSE, FALSE, <<>>, env)
      [] OTHER -> ToolOptions(FALSE, FALSE, FALSE, <<>>, env)

\* a parser of parse.ts applied to result.result: its first statement is
\* output.split('\n'), which exists on strings only
ParserCall(v) ==
    IF v.kind = "string"
    THEN [threw |-> FALSE, value |-> Value("parsed", v.text, <<>>)]
    ELSE [threw |-> TRUE, value |-> v]

\* (result.result as string).match(/Change (\d+) created/) and the like
ChangeMatch(text, verb) ==
    \E i \in 1..(Len(text) - 2) :
        text[i] = "Change " /\ text[i + 1] \in Digits /\ text[i + 2] = verb

WithConfigPath(result, configPath) ==
    [result EXCEPT !.configUsed = [@ EXCEPT !["p4configPath"] = configPath]]

Returned(result) == [threw |-> FALSE, envelope |-> result]
Threw == [threw |-> TRUE, envelope |-> NoEnvelope]

\* what the tool function does once runner.run has returned result
ToolFinish(tool, args, phase, result, configPath) ==
    IF tool = "run" THEN Returned(result)
    ELSE IF tool = "p4.changelist.update" /\ phase = 1 THEN Returned(result)
    ELSE IF tool \in ParsingTools
    THEN IF result.ok /\ TruthyValue(result.result)
         THEN IF ParserCall(result.result).threw THEN Threw
              ELSE Returned(WithConfigPath(
                       [result EXCEPT !.result = ParserCall(result.result).value],
                       configPath))
         ELSE Returned(WithConfigPath(result, configPath))
    ELSE IF tool \in {"p4.changelist.create", "p4.changelist.submit", "p4.submit"}
    THEN IF result.ok /\ TruthyValue(result.result)
            /\ ChangeMatch(result.result.text,
                   IF tool = "p4.changelist.create" THEN " created" ELSE " submitted")
         THEN Returned(WithConfigPath(
                  [result EXCEPT !.result = Value("object", result.result.text, <<>>)],
                  configPath))
         ELSE Returned(WithConfigPath(result, configPath))
    ELSE IF tool = "p4.changelist.update"
    THEN IF result.ok /\ TruthyValue(result.result)
         THEN Returned(WithConfigPath(
                  [result EXCEPT !.result = Value("object", result.result.text, <<>>)],
                  configPath))
         ELSE Returned(WithConfigPath(result, configPath))
    ELSE Returned(WithConfigPath(result, configPath))

\* p4ConfigDetect (utils.ts): no subprocess; echoes the resolution result
p4ConfigDetect ==
    LET configResult == findConfig
        errors == validateEnvironment(configResult)
    IN  Envelope(TRUE,
                 [k \in EnvKeys \cup {"p4configPath"} |->
                     IF k = "p4configPath" THEN configResult.configPath
                     ELSE configResult.environment[k]],
                 Value("object", <<>>, <<configResult.config, configResult.environment>>),
                 errors # <<>>, errors, FALSE, NoError)

---------------------------------------------------------------------------
(* The tool call in flight and the subprocess of its runner call.          *)

\* late: the events of the child that came after the one that settled the call
NoChild == [state |-> "none", stdin |-> "none", stdinText |-> <<>>, killed |-> FALSE,
            env |-> NoEnv, exit |-> {}, stdout |-> <<>>, stderr |-> <<>>, late |-> {}]
NoCall == [tool |-> "none", args |-> NoArgs, phase |-> 0,
           opts |-> ToolOptions(FALSE, FALSE, FALSE, <<>>, NoEnv),
           configPath |-> Undef, rss |-> 0, reachedRunner |-> FALSE]

\* resident memory of the server process, in MB, at the moment run is called
RssChoices == {100, 512, 600}

\* a spawn that arms the timer whatever the timeout is
spawnP4Process_TimerAlways(opts, penv) ==
    /\ child' = [NoChild EXCEPT !.state = "running", !.stdin = "ignore", !.env = penv]
    /\ timeoutHandle' = "armed"

\* spawnP4Process, runner.ts 149-170: stdio[0] is 'ignore', whatever the options
\* hold, and the timer is armed for a positive timeout only
spawnP4Process(opts, penv) ==
    /\ child' = [NoChild EXCEPT !.state = "running", !.stdin = "ignore", !.env = penv]
    /\ timeoutHandle' = IF opts.timeout > 0 THEN "armed" ELSE "none"

\* the tool function returns (or throws) with the result of its runner call
Finish(c, result, child2, timer2) ==
    LET fin == ToolFinish(c.tool, c.args, c.phase, result, c.configPath)
    IN  /\ pc' = IF fin.threw THEN "threw" ELSE "returned"
        /\ envelope' = fin.envelope
        /\ call' = c
        /\ child' = child2
        /\ timeoutHandle' = timer2

\* a runner that spawns without looking at the memory in use
run_NoMemoryCheck(c) ==
    /\ pc' = "running"
    /\ call' = c
    /\ envelope' = NoEnvelope
    /\ spawnP4Process(c.opts, buildProcessEnv(c.opts.env))

\* P4Runner.run up to its first suspension: the memory pre-check (runner.ts 62-78)
\* fails the call at once, otherwise the subprocess is spawned
run(c) ==
    IF c.rss > c.opts.maxMemoryMB
    THEN Finish(c, MemoryLimitEnvelope, NoChild, "none")
    ELSE /\ pc' = "running"
         /\ call' = c
         /\ envelope' = NoEnvelope
         /\ spawnP4Process(c.opts, buildProcessEnv(c.opts.env))

\* a tool function from its start to its first suspension in runner.run
BeginRun(tool, args, phase, rss) ==
    LET setup == setupForCommand
    IN  run([tool |-> tool, args |-> args, phase |-> phase,
             opts |-> RunOptions(tool, args, phase, setup.environment),
             configPath |-> setup.configPath, rss |-> rss, reachedRunner |-> TRUE])

Idle == pc = "idle"

---------------------------------------------------------------------------
(* Inputs.                                                                 *)

FilesChoices ==
    {UndefFiles, <<>>, << <<"a">> >>, << <<"..", "/", "a">> >>, << <<"/", "a">> >>,
     << <<"C:", "a">> >>, << <<>> >>}
SomeFiles == {UndefFiles, <<>>, << <<"a">> >>, << <<"..", "/", "a">> >>}
ChangelistChoices ==
    {UndefText, <<>>, <<"1", "2">>, <<"x">>, <<"0">>, <<"1", "0", "0", "0", "0", "0", "0">>}
SomeChangelists == {UndefText, <<>>, <<"1", "2">>}
DescriptionChoices == {UndefText, <<>>, <<" ">>, <<"x">>}
SourceChoices == {UndefText, <<"a">>, <<"..", "/", "a", ";">>}
DestinationChoices == {UndefText, <<"/", "/", "b">>}

ArgsOf(tool) ==
    CASE tool = "p4.add" ->
            {Args(f, c, UndefText, UndefText, UndefText, UndefText) :
                f \in FilesChoices, c \in ChangelistChoices}
      [] tool \in {"p4.edit", "p4.delete", "p4.revert", "p4.resolve"} ->
            {Args(f, UndefText, UndefText, UndefText, UndefText, UndefText) : f \in SomeFiles}
      [] tool \in {"p4.shelve", "p4.unshelve", "p4.changelist.submit", "p4.describe"} ->
            {Args(UndefFiles, c, UndefText, UndefText, UndefText, UndefText) :
                c \in SomeChangelists}
      [] tool = "p4.changelist.update" ->
            {Args(UndefFiles, c, d, UndefText, UndefText, UndefText) :
                c \in SomeChangelists, d \in {UndefText, <<"x">>}}
      [] tool \in {"p4.copy", "p4.move"} ->
            {Args(UndefFiles, UndefText, UndefText, src, dst, UndefText) :
                src \in SourceChoices, dst \in DestinationChoices}
      [] tool \in {"p4.changelist.create", "p4.submit"} ->
            {Args(f, UndefText, d, UndefText, UndefText, UndefText) :
                f \in {UndefFiles, << <<"a">> >>}, d \in DescriptionChoices}
      [] OTHER -> {NoArgs}

StdoutTexts ==
    {<<>>, <<" ", "\n">>, <<"x">>, <<"key1", ": ", "x", "\n", "x">>,
     <<"... ", "key1", " ", "x", "\n", "\n", "... ", "key2", " ", "4", "\n">>,
     <<"Change ", "7", " created">>}
StderrTexts ==
    {<<>>, <<"x", "\n", " ", "\n", "x">>, <<"Access denied">>, <<" ", "\n">>}
\* the code of the close event: null (the empty set) when a signal ended the child
CloseCodes == {{}, {0}, {1}, {127}}

DirectRunOptions ==
    {Options(po, zt, ma, t, hs, IF hs THEN <<"test input">> ELSE <<>>, NoEnv,
             DefaultMaxMemoryMB) :
        po \in BOOLEAN, zt \in BOOLEAN, ma \in BOOLEAN, t \in {DEFAULT_TIMEOUT, 0, -1},
        hs \in BOOLEAN}
    \cup
    \* a lower memory ceiling; an env option that overrides a process variable
    {Options(TRUE, FALSE, FALSE, DEFAULT_TIMEOUT, FALSE, <<>>, NoEnv, 50),
     Options(TRUE, FALSE, FALSE, DEFAULT_TIMEOUT, FALSE, <<>>,
             [NoEnv EXCEPT !["P4USER"] = "carol"], DefaultMaxMemoryMB)}

Secrets == {"envSecret", "fileSecret"}

ProcessEnvChoices ==
    {[NoEnv EXCEPT !["P4USER"] = "alice", !["P4PASSWD"] = pw] : pw \in {Undef, "envSecret"}}
    \cup
    \* the connection configured through environment variables only
    {[NoEnv EXCEPT !["P4PORT"] = "env:1666", !["P4USER"] = "alice",
                   !["P4CLIENT"] = "envws", !["P4CONFIG"] = "p4.ini"]}
ConfigFileChoices ==
    {[state |-> "absent", config |-> NoEnv],
     [state |-> "present", config |-> [NoEnv EXCEPT !["P4PORT"] = "host:1666",
                                                   !["P4CLIENT"] = "ws"]],
     [state |-> "present", config |-> [NoEnv EXCEPT !["P4PORT"] = "host:1666",
                                                   !["P4USER"] = "bob",
                                                   !["P4PASSWD"] = "fileSecret"]]}

---------------------------------------------------------------------------
(* SecurityManager.checkRateLimit (security.ts 65-115).                    *)

Identifiers == {"p4.info", "p4.add"}

\* a record of rateLimitStore; exists = FALSE is the absent entry, and
\* blockedUntil = 0 the absent (undefined) blockedUntil field
Record(count, resetTime, blockedUntil) ==
    [exists |-> TRUE, count |-> count, resetTime |-> resetTime, blockedUntil |-> blockedUntil]
NoRecord == [exists |-> FALSE, count |-> 0, resetTime |-> 0, blockedUntil |-> 0]

CheckResult(allowed, remaining, resetTime, blockedUntil) ==
    [allowed |-> allowed, remaining |-> remaining, resetTime |-> resetTime,
     blockedUntil |-> blockedUntil]

\* a block that lapses with the window of the record
IsBlocked_WithinWindowOnly(record, t) ==
    record.exists /\ record.blockedUntil # 0 /\ t < record.blockedUntil
    /\ t <= record.resetTime

\* record?.blockedUntil && now < record.blockedUntil
IsBlocked(record, t) ==
    record.exists /\ record.blockedUntil # 0 /\ t < record.blockedUntil

\* a window that is reset for a new identifier only
WindowExpired_OnlyWhenNew(record, t) == ~record.exists

\* !record || now > record.resetTime
WindowExpired(record, t) == ~record.exists \/ t > record.resetTime

\* a limiter that blocks the maxRequests-th check already
LimitExceeded_AtLimit(count, config) == count >= config.maxRequests

\* record.count > config.maxRequests
LimitExceeded(count, config) == count > config.maxRequests

\* the result returned and the record left in the store
checkRateLimit(record, config, t) ==
    IF ~complianceConfig.enableRateLimiting
    THEN [result |-> CheckResult(TRUE, config.maxRequests, t + config.windowMs, 0),
          record |-> record]
    ELSE IF IsBlocked(record, t)
    THEN [result |-> CheckResult(FALSE, 0, record.resetTime, record.blockedUntil),
          record |-> record]
    ELSE IF WindowExpired(record, t)
    THEN [result |-> CheckResult(TRUE, config.maxRequests - 1, t + config.windowMs, 0),
          record |-> Record(1, t + config.windowMs, 0)]
    ELSE IF LimitExceeded(record.count + 1, config)
    THEN [result |-> CheckResult(FALSE, 0, record.resetTime, t + config.blockDurationMs),
          record |-> Record(record.count + 1, record.resetTime, t + config.blockDurationMs)]
    ELSE [result |-> CheckResult(TRUE, config.maxRequests - (record.count + 1),
                                 record.resetTime, 0),
          record |-> [record EXCEPT !.count = record.count + 1]]

AuditRetentionDays == 90
MsPerDay == 86400000
MaxAuditEntries == 2
MaxRetentionDays == 1

MaxTime == 5
MaxChecks == 3
MaxRequests == 2
MaxWindowMs == 2
MaxBlockMs == 3

NoCheck == [id |-> "none", time |-> 0, nth |-> 0, pre |-> NoRecord, post |-> NoRecord,
            result |-> CheckResult(TRUE, 0, 0, 0)]

\* the audit log after construction of the SecurityManager (security.ts 42)
NoHandled == [name |-> "none", outcome |-> "none", logging |-> FALSE, appended |-> <<>>,
              retryAfter |-> 0, blockedUntil |-> 0]
NoQuery == [fn |-> "none", logging |-> FALSE, time |-> 0, before |-> <<>>, entries |-> <<>>]

AuditIdle ==
    /\ auditLog = <<>>
    /\ lastHandled = NoHandled
    /\ lastQuery = NoQuery
    /\ cleanupTimer = complianceConfig.enableAuditLogging

NoPureCall == [fn |-> "none"]

PureIdle ==
    /\ pureCall = NoPureCall
    /\ pureResult = NoPureCall

MaxInvocations == 3
Invocations == 1..MaxInvocations

\* an invocation slot no request has used
NoInvocation == [state |-> "none", name |-> "none", seen |-> NoRecord, counted |-> FALSE,
                 count |-> 0, window |-> 0, allowed |-> FALSE]

\* no request received yet
FlightIdle == inFlight = [i \in Invocations |-> NoInvocation]

RateIdle ==
    /\ now = 1
    /\ rateLimitStore = [id \in Identifiers |-> NoRecord]
    /\ rateConfig = [maxRequests |-> 100, windowMs |-> 600000, blockDurationMs |-> 3600000]
    /\ complianceConfig = [enableRateLimiting |-> TRUE, enableInputSanitization |-> TRUE,
                           enableMemoryLimits |-> TRUE, maxMemoryMB |-> DefaultMaxMemoryMB,
                           enableAuditLogging |-> FALSE,
                           auditLogRetentionDays |-> AuditRetentionDays]
    /\ checksInWindow = [id \in Identifiers |-> 0]
    /\ lastCheck = NoCheck

ToolsIdle ==
    /\ serverConfig = [readOnlyMode |-> TRUE, disableDelete |-> TRUE]
    /\ processEnv = NoEnv
    /\ configFile = [state |-> "absent", config |-> NoEnv]
    /\ pc = "idle"
    /\ call = NoCall
    /\ child = NoChild
    /\ timeoutHandle = "none"
    /\ envelope = NoEnvelope

\* every component as constructed, with the default configuration
InitIdle ==
    /\ ToolsIdle
    /\ RateIdle
    /\ AuditIdle
    /\ PureIdle
    /\ FlightIdle

InitRate ==
    /\ ToolsIdle
    /\ now = 1
    /\ rateLimitStore = [id \in Identifiers |-> NoRecord]
    /\ rateConfig \in [maxRequests : 1..MaxRequests, windowMs : 1..MaxWindowMs,
                       blockDurationMs : 1..MaxBlockMs]
    /\ complianceConfig \in [enableRateLimiting : BOOLEAN, enableInputSanitization : {TRUE},
                            enableMemoryLimits : {TRUE}, maxMemoryMB : {DefaultMaxMemoryMB},
                            enableAuditLogging : {FALSE},
                            auditLogRetentionDays : {AuditRetentionDays}]
    /\ checksInWindow = [id \in Identifiers |-> 0]
    /\ lastCheck = NoCheck
    /\ AuditIdle
    /\ PureIdle
    /\ FlightIdle

\* Date.now() advances
Tick ==
    /\ now < MaxTime
    /\ now' = now + 1
    /\ UNCHANGED <<flightVars, rateLimitStore, rateConfig, complianceConfig, checksInWindow, lastCheck,
                   toolVars, auditVars, pureVars>>

\* one call of checkRateLimit(identifier), as the front-end makes it (server.ts 998)
CheckRateLimit(identifier) ==
    /\ checksInWindow[identifier] < MaxChecks
    /\ LET pre == rateLimitStore[identifier]
           out == checkRateLimit(pre, rateConfig, now)
           \* the check opens a new window of the identifier
           opens == /\ complianceConfig.enableRateLimiting
                    /\ ~(pre.exists /\ pre.blockedUntil # 0 /\ now < pre.blockedUntil)
                    /\ (~pre.exists \/ now > pre.resetTime)
           nth == IF opens THEN 1 ELSE checksInWindow[identifier] + 1
       IN  /\ rateLimitStore' = [rateLimitStore EXCEPT ![identifier] = out.record]
           /\ checksInWindow' = [checksInWindow EXCEPT ![identifier] = nth]
           /\ lastCheck' = [id |-> identifier, time |-> now, nth |-> nth, pre |-> pre,
                            post |-> out.record, result |-> out.result]
    /\ UNCHANGED <<flightVars, now, rateConfig, complianceConfig, toolVars, auditVars, pureVars>>

NextRate ==
    \/ Tick
    \/ \E identifier \in Identifiers : CheckRateLimit(identifier)

SpecRate == InitRate /\ [][NextRate]_vars

\* checkRateLimit(identifier) called at any moment and any number of times; the
\* clock keeps advancing and the callers keep calling
CheckAnyTime(identifier) ==
    /\ LET pre == rateLimitStore[identifier]
           out == checkRateLimit(pre, rateConfig, now)
       IN  /\ rateLimitStore' = [rateLimitStore EXCEPT ![identifier] = out.record]
           /\ lastCheck' = [id |-> identifier, time |-> now, nth |-> 0, pre |-> pre,
                            post |-> out.record, result |-> out.result]
    /\ UNCHANGED <<flightVars, now, rateConfig, complianceConfig, checksInWindow, toolVars, auditVars,
                   pureVars>>

\* one tool is called over and over
NextUnblock ==
    \/ Tick
    \/ CheckAnyTime("p4.add")

SpecUnblock ==
    /\ InitRate
    /\ [][NextUnblock]_vars
    /\ WF_vars(Tick)
    /\ WF_vars(CheckAnyTime("p4.add"))

---------------------------------------------------------------------------
(* Actions of the tool layer and the Command Runner.                       *)

Init ==
    /\ serverConfig \in [readOnlyMode : BOOLEAN, disableDelete : BOOLEAN]
    /\ processEnv \in ProcessEnvChoices
    /\ configFile \in ConfigFileChoices
    /\ pc = "idle"
    /\ call = NoCall
    /\ child = NoChild
    /\ timeoutHandle = "none"
    /\ envelope = NoEnvelope
    /\ RateIdle
    /\ AuditIdle
    /\ PureIdle
    /\ FlightIdle

\* a tool function called by the front-end, up to its return or first suspension
InvokeTool(tool, args, rss) ==
    /\ Idle
    /\ IF ToolStart(tool, args) # Proceed
       THEN /\ pc' = "returned"
            /\ envelope' = Rejection(ToolStart(tool, args))
            /\ call' = [NoCall EXCEPT !.tool = tool, !.args = args]
            /\ child' = NoChild
            /\ timeoutHandle' = "none"
       ELSE BeginRun(tool, args, 1, rss)
    /\ UNCHANGED <<flightVars, serverConfig, processEnv, configFile, rateVars, auditVars, pureVars>>

InvokeConfigDetect ==
    /\ Idle
    /\ pc' = "returned"
    /\ envelope' = p4ConfigDetect
    /\ call' = [NoCall EXCEPT !.tool = "p4.config.detect"]
    /\ child' = NoChild
    /\ timeoutHandle' = "none"
    /\ UNCHANGED <<flightVars, serverConfig, processEnv, configFile, rateVars, auditVars, pureVars>>

\* P4Runner.run called directly with explicit options
InvokeRun(opts, rss) ==
    /\ Idle
    /\ run([tool |-> "run", args |-> NoArgs, phase |-> 1, opts |-> opts,
            configPath |-> Undef, rss |-> rss, reachedRunner |-> TRUE])
    /\ UNCHANGED <<flightVars, serverConfig, processEnv, configFile, rateVars, auditVars, pureVars>>

\* child.on('close'), runner.ts 181-190, and the rest of run and of the tool
ChildClose(code, stdout, stderr) ==
    /\ pc = "running"
    /\ child.state = "running"
    /\ LET result == runResolved(call.opts, child.env, ExitCodeOf(code), stdout, stderr)
       IN  IF call.tool = "p4.changelist.update" /\ call.phase = 1 /\ result.ok
           THEN \E rss \in RssChoices : BeginRun(call.tool, call.args, 2, rss)
           ELSE Finish(call, result,
                       [child EXCEPT !.state = "closed", !.exit = code,
                                     !.stdout = stdout, !.stderr = stderr],
                       IF timeoutHandle = "armed" THEN "cleared" ELSE timeoutHandle)
    /\ UNCHANGED <<flightVars, serverConfig, processEnv, configFile, rateVars, auditVars, pureVars>>

\* an error handler that leaves the timer armed
ChildError_KeepsTimer ==
    /\ pc = "running"
    /\ child.state = "running"
    /\ Finish(call, runRejected(child.env, SpawnErrorText),
              [child EXCEPT !.state = "failed"], timeoutHandle)
    /\ UNCHANGED <<flightVars, serverConfig, processEnv, configFile, rateVars, auditVars, pureVars>>

\* child.on('error'), runner.ts 192-197
ChildError ==
    /\ pc = "running"
    /\ child.state = "running"
    /\ Finish(call, runRejected(child.env, SpawnErrorText),
              [child EXCEPT !.state = "failed"],
              IF timeoutHandle = "armed" THEN "cleared" ELSE timeoutHandle)
    /\ UNCHANGED <<flightVars, serverConfig, processEnv, configFile, rateVars, auditVars, pureVars>>

\* the timer callback, runner.ts 166-169: it runs whenever the timer was not
\* cleared; its reject has no effect on a promise that is settled
TimeoutFire ==
    /\ timeoutHandle = "armed"
    /\ IF pc = "running" /\ child.state = "running"
       THEN Finish(call, runRejected(child.env, TimeoutErrorText),
                   [child EXCEPT !.state = "signalled", !.killed = TRUE], "fired")
       ELSE /\ child' = [child EXCEPT !.killed = TRUE]
            /\ timeoutHandle' = "fired"
            /\ UNCHANGED <<flightVars, pc, call, envelope>>
    /\ UNCHANGED <<flightVars, serverConfig, processEnv, configFile, rateVars, auditVars, pureVars>>

\* child.on('close') after the call was settled by the timer or by 'error':
\* clearTimeout, and a resolve that has no effect (runner.ts 181-190)
LateClose ==
    /\ pc \in {"returned", "threw"}
    /\ child.state \in {"signalled", "failed"}
    /\ "close" \notin child.late
    /\ child' = [child EXCEPT !.late = @ \cup {"close"}]
    /\ timeoutHandle' = IF timeoutHandle = "armed" THEN "cleared" ELSE timeoutHandle
    /\ UNCHANGED <<flightVars, pc, call, envelope>>
    /\ UNCHANGED <<flightVars, serverConfig, processEnv, configFile, rateVars, auditVars, pureVars>>

\* child.on('error') after the timer settled the call (the signal could not be
\* delivered): clearTimeout, and a reject that has no effect (runner.ts 192-197)
LateError ==
    /\ pc \in {"returned", "threw"}
    /\ child.state = "signalled"
    /\ child.late = {}
    /\ child' = [child EXCEPT !.late = @ \cup {"error"}]
    /\ timeoutHandle' = IF timeoutHandle = "armed" THEN "cleared" ELSE timeoutHandle
    /\ UNCHANGED <<flightVars, pc, call, envelope>>
    /\ UNCHANGED <<flightVars, serverConfig, processEnv, configFile, rateVars, auditVars, pureVars>>

\* the front-end hands the outcome to its caller (server.ts 1032, 1132-1153) and
\* is ready for the next call
Respond ==
    /\ pc \in {"returned", "threw"}
    /\ pc' = "idle"
    /\ call' = NoCall
    /\ child' = NoChild
    /\ timeoutHandle' = "none"
    /\ envelope' = NoEnvelope
    /\ UNCHANGED <<flightVars, serverConfig, processEnv, configFile, rateVars, auditVars, pureVars>>

Next ==
    \/ \E tool \in RunnerTools : \E args \in ArgsOf(tool) : \E rss \in RssChoices :
           InvokeTool(tool, args, rss)
    \/ InvokeConfigDetect
    \/ \E opts \in DirectRunOptions : \E rss \in RssChoices : InvokeRun(opts, rss)
    \/ \E code \in CloseCodes : \E stdout \in StdoutTexts : \E stderr \in StderrTexts :
           ChildClose(code, stdout, stderr)
    \/ ChildError
    \/ TimeoutFire
    \/ LateClose
    \/ LateError
    \/ Respond

Spec == Init /\ [][Next]_vars

\* P4Runner.run called directly.  A timer that is armed fires unless the
\* call ends first; nothing makes the child exit.
NextRunner ==
    \/ \E opts \in DirectRunOptions : \E rss \in RssChoices : InvokeRun(opts, rss)
    \/ \E code \in CloseCodes : \E stdout \in StdoutTexts : \E stderr \in StderrTexts :
           ChildClose(code, stdout, stderr)
    \/ ChildError
    \/ TimeoutFire
    \/ LateClose
    \/ LateError
    \/ Respond

SpecRunner == InitIdle /\ [][NextRunner]_vars /\ WF_vars(TimeoutFire)

---------------------------------------------------------------------------
(* The audit log and the protocol front-end that writes it (under          *)
(* SpecAudit).                                                             *)

AuditEntry(tool, result) == [tool |-> tool, result |-> result, timestamp |-> now]

\* logAuditEntry (security.ts 217-245): nothing when logging is off, otherwise
\* push and keep the entries younger than the retention period
\* (timestamp > now - days * MsPerDay, written with a quotient)
Retained_KeepAll(log) == log

\* the retention filter of logAuditEntry (231-232) and cleanupAuditLogs (280-282)
Retained(log) ==
    SelectSeq(log, LAMBDA e :
        (now - e.timestamp) \div MsPerDay < complianceConfig.auditLogRetentionDays)

logAuditEntry(log, entry) ==
    IF ~complianceConfig.enableAuditLogging THEN log
    ELSE Retained(Append(log, entry))

\* Array.prototype.sort by descending timestamp (stable)
RECURSIVE SortNewestFirst(_)
SortNewestFirst(log) ==
    IF log = <<>> THEN <<>>
    ELSE LET newest == CHOOSE i \in 1..Len(log) :
                 /\ \A j \in 1..Len(log) : log[j].timestamp <= log[i].timestamp
                 /\ \A j \in 1..(i - 1) : log[j].timestamp < log[i].timestamp
         IN  <<log[newest]>>
             \o SortNewestFirst(SubSeq(log, 1, newest - 1) \o SubSeq(log, newest + 1, Len(log)))

\* the result tags of the entries a handler call added to the log
Appended(before, after) ==
    [i \in 1..(Len(after) - Len(before)) |-> after[Len(before) + i].result]

\* the time in the message of a rejected call, "Try again after ..." (server.ts 1000)
RetryAfter(rateLimitResult) == rateLimitResult.resetTime

\* the CallToolRequestSchema handler (server.ts 990-1155) for a known tool whose
\* function returns or raises.  Every case of the switch returns from inside the
\* try, so the success entry after the switch is never written; the McpError of
\* a blocked call is raised inside the try and passes through the catch.
HandleToolCall(name, toolOutcome) ==
    /\ Len(auditLog) < MaxAuditEntries
    /\ LET limit == checkRateLimit(rateLimitStore[name], rateConfig, now)
           outcome == IF ~limit.result.allowed THEN "blocked" ELSE toolOutcome
           log == IF outcome = "blocked"
                  THEN logAuditEntry(logAuditEntry(auditLog, AuditEntry(name, "blocked")),
                                     AuditEntry(name, "error"))
                  ELSE IF outcome = "threw"
                  THEN logAuditEntry(auditLog, AuditEntry(name, "error"))
                  ELSE auditLog
       IN  /\ rateLimitStore' = [rateLimitStore EXCEPT ![name] = limit.record]
           /\ auditLog' = log
           /\ lastHandled' = [name |-> name, outcome |-> outcome,
                              logging |-> complianceConfig.enableAuditLogging,
                              appended |-> Appended(auditLog, log),
                              retryAfter |-> IF outcome = "blocked"
                                             THEN RetryAfter(limit.result) ELSE 0,
                              blockedUntil |-> limit.record.blockedUntil]
    /\ UNCHANGED <<flightVars, now, rateConfig, complianceConfig, checksInWindow, lastCheck, lastQuery,
                   cleanupTimer, toolVars, pureVars>>

\* updateComplianceConfig({ enableAuditLogging })
UpdateComplianceConfig(enableAuditLogging) ==
    /\ complianceConfig.enableAuditLogging # enableAuditLogging
    /\ complianceConfig' =
           [complianceConfig EXCEPT !.enableAuditLogging = enableAuditLogging]
    /\ UNCHANGED <<flightVars, now, rateLimitStore, rateConfig, checksInWindow, lastCheck, auditVars,
                   toolVars, pureVars>>

\* the filters of getAuditLog: none, or { result }
AuditFilters == {"none", "success", "error"}

\* getAuditLog(filter): Array.filter makes a new array, Array.sort sorts in
\* place; without a filter the array sorted and returned is this.auditLog itself
GetAuditLog(filter) ==
    /\ auditLog' = IF filter = "none" THEN SortNewestFirst(auditLog) ELSE auditLog
    /\ lastQuery' = [fn |-> "getAuditLog", logging |-> complianceConfig.enableAuditLogging,
                     time |-> now, before |-> auditLog,
                     entries |-> IF filter = "none" THEN SortNewestFirst(auditLog)
                                 ELSE SortNewestFirst(SelectSeq(auditLog,
                                          LAMBDA e : e.result = filter))]
    /\ lastQuery' # lastQuery
    /\ UNCHANGED <<flightVars, lastHandled, cleanupTimer, rateVars, toolVars, pureVars>>

\* exportAuditLog('json'): the entries as stored
ExportAuditLog ==
    /\ lastQuery' = [fn |-> "exportAuditLog",
                     logging |-> complianceConfig.enableAuditLogging,
                     time |-> now, before |-> auditLog, entries |-> auditLog]
    /\ lastQuery' # lastQuery
    /\ UNCHANGED <<flightVars, auditLog, lastHandled, cleanupTimer, rateVars, toolVars, pureVars>>

InitAudit ==
    /\ ToolsIdle
    /\ PureIdle
    /\ FlightIdle
    /\ now \in 1..MaxTime
    /\ rateLimitStore = [id \in Identifiers |-> NoRecord]
    /\ rateConfig \in [maxRequests : 1..MaxRequests, windowMs : {600000},
                       blockDurationMs : {3600000}]
    /\ complianceConfig \in [enableRateLimiting : {TRUE}, enableInputSanitization : {TRUE},
                            enableMemoryLimits : {TRUE}, maxMemoryMB : {DefaultMaxMemoryMB},
                            enableAuditLogging : BOOLEAN,
                            auditLogRetentionDays : {AuditRetentionDays}]
    /\ checksInWindow = [id \in Identifiers |-> 0]
    /\ lastCheck = NoCheck
    /\ AuditIdle

NextAudit ==
    \/ \E name \in Identifiers : \E toolOutcome \in {"returned", "threw"} :
           HandleToolCall(name, toolOutcome)
    \/ \E enableAuditLogging \in BOOLEAN : UpdateComplianceConfig(enableAuditLogging)
    \/ \E filter \in AuditFilters : GetAuditLog(filter)
    \/ ExportAuditLog

SpecAudit == InitAudit /\ [][NextAudit]_vars

---------------------------------------------------------------------------
(* Tool invocations in flight together (under SpecInFlight).  The handler   *)
(* of a request runs without suspension from its first statement to the     *)
(* await of the tool function (server.ts 990-1032); other handlers run      *)
(* while it is suspended there.                                             *)

\* a check that works on the record as it was when the request arrived
RecordChecked_AtReceipt(i) == inFlight[i].seen

\* this.rateLimitStore.get(identifier) (security.ts 75), read inside the check
RecordChecked(i) == rateLimitStore[inFlight[i].name]

\* a request for the tool arrives; its handler has not run yet
ReceiveRequest(i, name) ==
    /\ inFlight[i].state = "none"
    /\ \A j \in 1..(i - 1) : inFlight[j].state # "none"
    /\ inFlight' = [inFlight EXCEPT ![i] = [NoInvocation EXCEPT
                        !.state = "received", !.name = name,
                        !.seen = rateLimitStore[name]]]
    /\ UNCHANGED <<rateVars, auditVars, toolVars, pureVars>>

\* the handler up to its first suspension point: checkRateLimit, then either the
\* rejection (two audit entries and the McpError) or the call of the tool function
BeginToolCall(i) ==
    /\ inFlight[i].state = "received"
    /\ LET name == inFlight[i].name
           pre == RecordChecked(i)
           limit == checkRateLimit(pre, rateConfig, now)
       IN  /\ rateLimitStore' = [rateLimitStore EXCEPT ![name] = limit.record]
           /\ auditLog' = IF limit.result.allowed THEN auditLog
                          ELSE logAuditEntry(logAuditEntry(auditLog,
                                                           AuditEntry(name, "blocked")),
                                             AuditEntry(name, "error"))
           /\ inFlight' = [inFlight EXCEPT ![i] =
                  [state |-> IF limit.result.allowed THEN "running" ELSE "blocked",
                   name |-> name,
                   seen |-> inFlight[i].seen,
                   counted |-> complianceConfig.enableRateLimiting /\ ~IsBlocked(pre, now),
                   count |-> limit.record.count,
                   window |-> limit.record.resetTime,
                   allowed |-> limit.result.allowed]]
    /\ UNCHANGED <<now, rateConfig, complianceConfig, checksInWindow, lastCheck, lastHandled,
                   lastQuery, cleanupTimer, toolVars, pureVars>>

\* the tool function settles and the handler resumes: it returns the result, or
\* its catch writes the error entry
FinishToolCall(i, toolOutcome) ==
    /\ inFlight[i].state = "running"
    /\ inFlight' = [inFlight EXCEPT ![i].state = "settled"]
    /\ auditLog' = IF toolOutcome = "threw"
                   THEN logAuditEntry(auditLog, AuditEntry(inFlight[i].name, "error"))
                   ELSE auditLog
    /\ UNCHANGED <<rateVars, lastHandled, lastQuery, cleanupTimer, toolVars, pureVars>>

NextInFlight ==
    \/ Tick
    \/ \E i \in Invocations : ReceiveRequest(i, "p4.add")
    \/ \E i \in Invocations : BeginToolCall(i)
    \/ \E i \in Invocations : \E toolOutcome \in {"returned", "threw"} :
           FinishToolCall(i, toolOutcome)

\* the server as constructed, with the limits read from the environment
InitInFlight ==
    /\ ToolsIdle
    /\ now = 1
    /\ rateLimitStore = [id \in Identifiers |-> NoRecord]
    /\ rateConfig \in [maxRequests : 1..MaxRequests, windowMs : {MaxWindowMs},
                       blockDurationMs : {1, MaxBlockMs}]
    /\ complianceConfig \in [enableRateLimiting : BOOLEAN, enableInputSanitization : {TRUE},
                            enableMemoryLimits : {TRUE}, maxMemoryMB : {DefaultMaxMemoryMB},
                            enableAuditLogging : {FALSE},
                            auditLogRetentionDays : {AuditRetentionDays}]
    /\ checksInWindow = [id \in Identifiers |-> 0]
    /\ lastCheck = NoCheck
    /\ AuditIdle
    /\ PureIdle
    /\ FlightIdle

SpecInFlight == InitInFlight /\ [][NextInFlight]_vars

---------------------------------------------------------------------------
(* The audit-log methods of the SecurityManager over days of clock time    *)
(* (under SpecAuditLog).                                                   *)

\* Date.now() advances by eight hours
EightHoursPass ==
    /\ now < (MaxRetentionDays + 1) * MsPerDay
    /\ now' = now + MsPerDay \div 3
    /\ UNCHANGED <<flightVars, rateLimitStore, rateConfig, complianceConfig, checksInWindow, lastCheck,
                   toolVars, auditVars, pureVars>>

\* one call of logAuditEntry(entry)
LogAuditEntry(tool, result) ==
    /\ Len(auditLog) <= MaxAuditEntries
    /\ auditLog' = logAuditEntry(auditLog, AuditEntry(tool, result))
    /\ lastQuery' = [fn |-> "logAuditEntry", logging |-> complianceConfig.enableAuditLogging,
                     time |-> now, before |-> auditLog,
                     entries |-> logAuditEntry(auditLog, AuditEntry(tool, result))]
    /\ UNCHANGED <<flightVars, lastHandled, cleanupTimer, rateVars, toolVars, pureVars>>

\* cleanupAuditLogs, run by the interval the constructor registers when logging
\* is enabled: every 24 hours after construction
CleanupAuditLogs ==
    /\ cleanupTimer
    /\ now > 1
    /\ (now - 1) % MsPerDay = 0
    /\ auditLog' = Retained(auditLog)
    /\ lastQuery' = [fn |-> "cleanupAuditLogs",
                     logging |-> complianceConfig.enableAuditLogging,
                     time |-> now, before |-> auditLog, entries |-> Retained(auditLog)]
    /\ lastQuery' # lastQuery
    /\ UNCHANGED <<flightVars, lastHandled, cleanupTimer, rateVars, toolVars, pureVars>>

InitAuditLog ==
    /\ ToolsIdle
    /\ PureIdle
    /\ FlightIdle
    /\ now = 1
    /\ rateLimitStore = [id \in Identifiers |-> NoRecord]
    /\ rateConfig = [maxRequests |-> 100, windowMs |-> 600000, blockDurationMs |-> 3600000]
    /\ complianceConfig \in [enableRateLimiting : {TRUE}, enableInputSanitization : {TRUE},
                            enableMemoryLimits : {TRUE}, maxMemoryMB : {DefaultMaxMemoryMB},
                            enableAuditLogging : BOOLEAN,
                            auditLogRetentionDays : 1..MaxRetentionDays]
    /\ checksInWindow = [id \in Identifiers |-> 0]
    /\ lastCheck = NoCheck
    /\ AuditIdle

NextAuditLog ==
    \/ EightHoursPass
    \/ LogAuditEntry("p4.info", "success")
    \/ CleanupAuditLogs
    \/ \E enableAuditLogging \in BOOLEAN : UpdateComplianceConfig(enableAuditLogging)
    \/ \E filter \in AuditFilters : GetAuditLog(filter)
    \/ ExportAuditLog

SpecAuditLog == InitAuditLog /\ [][NextAuditLog]_vars

---------------------------------------------------------------------------
(* Pure functions applied to drawn inputs (under SpecPure).                *)

\* the phrases mapError looks for, and a text that is none of them
SignatureTokens ==
    {"x", "Perforce client error", "Perforce password", "Access denied", "Client '",
     "' unknown", "Connect to server failed", "TCP connect", "timeout",
     "not under client"}

MaxStderrTokens == 2

TextsUpTo(tokens, n) == UNION {[1..k -> tokens] : k \in 0..n}

StderrSamples == TextsUpTo(SignatureTokens, MaxStderrTokens)
StdoutSamples ==
    {<<>>, <<"Client '", "x", "' unknown">>} \cup {<<t>> : t \in SignatureTokens}

\* exit codes that reach mapError: -1 (no code, or a rejected spawn), non-zero codes
FailureExitCodes == {-1, 1, 2, 127}

\* mapError as run calls it (runner.ts 134, 138)
CallMapError(exitCode, stderr, stdout) ==
    /\ pureCall = NoPureCall
    /\ pureCall' = [fn |-> "mapError", exitCode |-> exitCode, stderr |-> stderr,
                    stdout |-> stdout]
    /\ pureResult' = mapError(exitCode, stderr, stdout)
    /\ UNCHANGED <<flightVars, toolVars, rateVars, auditVars>>

\* A directory is its depth below the filesystem root; the chain of a start
\* directory is start, start - 1, ..., Root.  files[d] tells whether directory d
\* holds a file of the config name, and whether that file can be read.
Root == 0
MaxDepth == 3
FileStates == {"absent", "readable", "unreadable"}

\* path.join(dir, configName) and the directory it is in; none when dir is -1
SearchResult(dir) == [configPath |-> dir, projectRoot |-> dir]
NotFoundResult == SearchResult(-1)

\* a search that prefers the file nearest to the root
RECURSIVE searchUpward_FromRoot(_, _)
searchUpward_FromRoot(currentPath, files) ==
    IF currentPath # Root
    THEN IF searchUpward_FromRoot(currentPath - 1, files) # NotFoundResult
         THEN searchUpward_FromRoot(currentPath - 1, files)
         ELSE IF files[currentPath] # "absent" THEN SearchResult(currentPath)
         ELSE NotFoundResult
    ELSE IF files[Root] # "absent" THEN SearchResult(Root) ELSE NotFoundResult

\* fs.promises.access(configPath, F_OK) succeeds for a file that exists
RECURSIVE searchUpward(_, _)
searchUpward(currentPath, files) ==
    IF currentPath # Root
    THEN IF files[currentPath] # "absent" THEN SearchResult(currentPath)
         ELSE searchUpward(currentPath - 1, files)
    ELSE IF files[Root] # "absent" THEN SearchResult(Root) ELSE NotFoundResult

\* what every config file of the chain holds
SampleConfig == [NoEnv EXCEPT !["P4PORT"] = "host:1666", !["P4CLIENT"] = "ws"]

\* findConfig over a directory chain: parseConfigFile raises on a file that
\* cannot be read, and findConfig's catch answers as if nothing was found
findConfigFrom(startPath, files) ==
    LET configName == IF Truthy(processEnv["P4CONFIG"]) THEN processEnv["P4CONFIG"]
                      ELSE DEFAULT_CONFIG_NAME
        search == searchUpward(startPath, files)
        notFound == [found |-> FALSE, configPath |-> -1, projectRoot |-> -1,
                     config |-> NoEnv,
                     environment |-> [NoEnv EXCEPT !["P4CONFIG"] = configName]]
    IN  IF search = NotFoundResult THEN notFound
        ELSE IF files[search.configPath] = "unreadable" THEN notFound
        ELSE [found |-> TRUE, configPath |-> search.configPath,
              projectRoot |-> search.projectRoot, config |-> SampleConfig,
              environment |-> buildEnvironment(SampleConfig, configName)]

CallFindConfig(startPath, files) ==
    /\ pureCall = NoPureCall
    /\ pureCall' = [fn |-> "findConfig", startPath |-> startPath, files |-> files]
    /\ pureResult' = findConfigFrom(startPath, files)
    /\ UNCHANGED <<flightVars, toolVars, rateVars, auditVars>>

\* ---- the tag-value parser of the output parsers (parseZtagOutput, parseValue)

\* String.toLowerCase on a word
LowerCaseOf == [w \in {"TRUE", "Yes", "oN", "False", "NO", "Off"} |->
                   CASE w = "TRUE" -> "true" [] w = "Yes" -> "yes" [] w = "oN" -> "on"
                     [] w = "False" -> "false" [] w = "NO" -> "no" [] w = "Off" -> "off"]
ToLowerCase(text) ==
    [i \in 1..Len(text) |-> IF text[i] \in DOMAIN LowerCaseOf THEN LowerCaseOf[text[i]]
                            ELSE text[i]]

AllDigits(text) == text # <<>> /\ \A i \in 1..Len(text) : text[i] \in Digits

\* /^\d+(\.\d+)?$/
MatchesNumber(text) ==
    \/ AllDigits(text)
    \/ \E p \in 2..(Len(text) - 1) :
           /\ text[p] = "."
           /\ AllDigits(SubSeq(text, 1, p - 1))
           /\ AllDigits(SubSeq(text, p + 1, Len(text)))

RECURSIVE StripLeadingZeros(_)
StripLeadingZeros(digits) ==
    IF Len(digits) > 1 /\ Head(digits) = "0" THEN StripLeadingZeros(Tail(digits)) ELSE digits

RECURSIVE StripTrailingZeros(_)
StripTrailingZeros(digits) ==
    IF digits # <<>> /\ digits[Len(digits)] = "0"
    THEN StripTrailingZeros(SubSeq(digits, 1, Len(digits) - 1))
    ELSE digits

\* parseFloat of a text that matches the number pattern: the number, written
\* without leading zeros and without trailing zeros of the fraction
ParseFloat(text) ==
    IF AllDigits(text) THEN StripLeadingZeros(text)
    ELSE LET p == CHOOSE q \in 2..(Len(text) - 1) : text[q] = "."
             fraction == StripTrailingZeros(SubSeq(text, p + 1, Len(text)))
         IN  StripLeadingZeros(SubSeq(text, 1, p - 1))
             \o (IF fraction = <<>> THEN <<>> ELSE <<".">> \o fraction)

NumberValue(digits) == Value("number", digits, <<>>)
BooleanValue(b) == Value("boolean", IF b THEN <<"true">> ELSE <<"false">>, <<>>)

parseValue_NoBooleans(value) ==
    IF value = <<>> THEN StringValue(<<>>)
    ELSE IF MatchesNumber(value) THEN NumberValue(ParseFloat(value))
    ELSE StringValue(value)

\* parseValue (parsers 1347-1366)
parseValue(value) ==
    IF value = <<>> THEN StringValue(<<>>)
    ELSE IF MatchesNumber(value) THEN NumberValue(ParseFloat(value))
    ELSE IF ToLowerCase(value) \in {<<"true">>, <<"yes">>, <<"on">>} THEN BooleanValue(TRUE)
    ELSE IF ToLowerCase(value) \in {<<"false">>, <<"no">>, <<"off">>} THEN BooleanValue(FALSE)
    ELSE StringValue(value)

\* /^\.\.\. (\w+)\s*(.*)$/ on a trimmed line
TagMatch(line) == Len(line) >= 2 /\ line[1] = "... " /\ line[2] \in WordTokens

\* currentRecord[key] = value: an object keeps a key where it was first set
SetKey(record, key, value) ==
    IF \E i \in 1..Len(record) : record[i][1] = key
    THEN [i \in 1..Len(record) |-> IF record[i][1] = key THEN <<key, value>> ELSE record[i]]
    ELSE Append(record, <<key, value>>)

RECURSIVE TagRecords(_, _)
\* the loop of parseZtagOutput (parsers 602-621) and the push after it (624-626)
TagRecords(lines, currentRecord) ==
    IF lines = <<>>
    THEN (IF currentRecord # <<>> THEN <<currentRecord>> ELSE <<>>)
    ELSE LET trimmedLine == Trim(Head(lines)) IN
         IF trimmedLine = <<>>
         THEN (IF currentRecord # <<>> THEN <<currentRecord>> ELSE <<>>)
              \o TagRecords(Tail(lines), <<>>)
         ELSE IF TagMatch(trimmedLine)
              THEN TagRecords(Tail(lines),
                       SetKey(currentRecord, trimmedLine[2],
                              parseValue(Trim(SubSeq(trimmedLine, 3, Len(trimmedLine))))))
              ELSE TagRecords(Tail(lines), currentRecord)

parseZtagOutput(output) == TagRecords(SplitLines(output), <<>>)

\* Array.join('\n')
RECURSIVE JoinLines(_)
JoinLines(lines) ==
    IF lines = <<>> THEN <<>>
    ELSE IF Len(lines) = 1 THEN Head(lines)
    ELSE Head(lines) \o <<"\n">> \o JoinLines(Tail(lines))

\* outputs given to the parser: up to MaxLines lines
MaxLines == 3
LineSamples ==
    { <<>>, <<" ">>, <<"garbage">>,
      <<"... ", "key1", " ", "value1">>,
      <<"... ", "key2", " ", "4", "2">>,
      <<"... ", "key1", " ", "othervalue">>,
      <<"... ", "key2", " ", "Yes">>,
      <<"... ", "key2", " ", "0", "1", ".", "5", "0">> }

\* the two blocks of the parser's documented example
ExampleLines ==
    << <<"... ", "key1", " ", "value1">>, <<"... ", "key2", " ", "4", "2">>, <<>>,
       <<"... ", "key1", " ", "othervalue">> >>

ParserInputs == {ExampleLines} \cup UNION {[1..n -> LineSamples] : n \in 0..MaxLines}

CallParseZtagOutput(lines) ==
    /\ pureCall = NoPureCall
    /\ pureCall' = [fn |-> "parseZtagOutput", lines |-> lines]
    /\ pureResult' = [records |-> parseZtagOutput(JoinLines(lines))]
    /\ UNCHANGED <<flightVars, toolVars, rateVars, auditVars>>

\* inputs of sanitizeInput: up to MaxInputChars characters, for a pattern also
\* behind a long run of letters
MaxInputChars == 3
PatternChars == {"(", "?", "<", "x", "y", "a", "\\", "0"}
PathChars == {"/", "..", "*", ";", "a", NullChar, " "}

InputsOver(chars) == UNION {[1..k -> chars] : k \in 0..MaxInputChars}

SanitizerInputs(type) ==
    IF type = "pattern"
    THEN InputsOver(PatternChars) \cup {<<LongRun>> \o t : t \in InputsOver(PatternChars)}
    ELSE InputsOver(PathChars)

CallSanitizeInput(input, type) ==
    /\ pureCall = NoPureCall
    /\ pureCall' = [fn |-> "sanitizeInput", input |-> input, type |-> type]
    /\ pureResult' = sanitizeInput(input, type)
    /\ UNCHANGED <<flightVars, toolVars, rateVars, auditVars>>

\* the caller takes the result; the next call can be made
ReturnPure ==
    /\ pureCall # NoPureCall
    /\ pureCall' = NoPureCall
    /\ pureResult' = NoPureCall
    /\ UNCHANGED <<flightVars, toolVars, rateVars, auditVars>>

NextPure ==
    \/ /\ pureCall = NoPureCall
       /\ \E exitCode \in FailureExitCodes : \E stderr \in StderrSamples :
          \E stdout \in StdoutSamples : CallMapError(exitCode, stderr, stdout)
    \/ /\ pureCall = NoPureCall
       /\ \E startPath \in Root..MaxDepth : \E files \in [Root..startPath -> FileStates] :
              CallFindConfig(startPath, files)
    \/ /\ pureCall = NoPureCall
       /\ \E lines \in ParserInputs : CallParseZtagOutput(lines)
    \/ ReturnPure

SpecPure == InitIdle /\ [][NextPure]_vars

---------------------------------------------------------------------------
(* sanitizeInput applied to drawn inputs (under SpecSanitize).             *)

\* as constructed, with P4_ENABLE_INPUT_SANITIZATION set either way
InitSanitize ==
    /\ ToolsIdle
    /\ now = 1
    /\ rateLimitStore = [id \in Identifiers |-> NoRecord]
    /\ rateConfig = [maxRequests |-> 100, windowMs |-> 600000, blockDurationMs |-> 3600000]
    /\ complianceConfig \in [enableRateLimiting : {TRUE}, enableInputSanitization : BOOLEAN,
                            enableMemoryLimits : {TRUE}, maxMemoryMB : {DefaultMaxMemoryMB},
                            enableAuditLogging : {FALSE},
                            auditLogRetentionDays : {AuditRetentionDays}]
    /\ checksInWindow = [id \in Identifiers |-> 0]
    /\ lastCheck = NoCheck
    /\ AuditIdle
    /\ PureIdle
    /\ FlightIdle

NextSanitize ==
    \/ /\ pureCall = NoPureCall
       /\ \E type \in {"filespec", "pattern", "path"} : \E input \in SanitizerInputs(type) :
              CallSanitizeInput(input, type)
    \/ ReturnPure

SpecSanitize == InitSanitize /\ [][NextSanitize]_vars

---------------------------------------------------------------------------
(* The memory checks: SecurityManager.checkMemoryUsage and the pre-check   *)
(* of P4Runner.run (under SpecMemory).  Memory is counted in whole MB; the *)
(* code compares bytes with maxMemoryMB * 1024 * 1024.                     *)

\* process.memoryUsage(): { rss, heapUsed }
MemoryUsages == [rss : {100, 600}, heapUsed : {100, 450}]

\* checkMemoryUsage (security.ts 179-201); heapUsed > maxBytes * 0.8 is written
\* in tenths
checkMemoryUsage(usage) ==
    IF ~complianceConfig.enableMemoryLimits
    THEN [withinLimits |-> TRUE, usage |-> usage, warnings |-> <<>>]
    ELSE LET maxMB == complianceConfig.maxMemoryMB
             warnings == (IF usage.rss > maxMB THEN <<"RSS exceeds limit">> ELSE <<>>)
                         \o (IF usage.heapUsed * 10 > maxMB * 8
                             THEN <<"Heap near limit">> ELSE <<>>)
         IN  [withinLimits |-> warnings = <<>>, usage |-> usage, warnings |-> warnings]

\* the front-end's check before it routes a call to its tool (server.ts 1019)
CallCheckMemoryUsage(usage) ==
    /\ Idle
    /\ pureCall = NoPureCall
    /\ pureCall' = [fn |-> "checkMemoryUsage", usage |-> usage]
    /\ pureResult' = checkMemoryUsage(usage)
    /\ UNCHANGED <<flightVars, toolVars, rateVars, auditVars>>

\* the server as constructed, P4_ENABLE_MEMORY_LIMITS being 'false' or not
InitMemory ==
    /\ ToolsIdle
    /\ now = 1
    /\ rateLimitStore = [id \in Identifiers |-> NoRecord]
    /\ rateConfig = [maxRequests |-> 100, windowMs |-> 600000, blockDurationMs |-> 3600000]
    /\ complianceConfig \in [enableRateLimiting : {TRUE}, enableInputSanitization : {TRUE},
                            enableMemoryLimits : BOOLEAN, maxMemoryMB : {DefaultMaxMemoryMB},
                            enableAuditLogging : {FALSE},
                            auditLogRetentionDays : {AuditRetentionDays}]
    /\ checksInWindow = [id \in Identifiers |-> 0]
    /\ lastCheck = NoCheck
    /\ AuditIdle
    /\ PureIdle
    /\ FlightIdle

NextMemory ==
    \/ \E usage \in MemoryUsages : CallCheckMemoryUsage(usage)
    \/ ReturnPure
    \/ \E opts \in DirectRunOptions : \E rss \in RssChoices : InvokeRun(opts, rss)
    \/ \E code \in CloseCodes : \E stdout \in StdoutTexts : \E stderr \in StderrTexts :
           ChildClose(code, stdout, stderr)
    \/ ChildError
    \/ TimeoutFire
    \/ LateClose
    \/ LateError
    \/ Respond

SpecMemory == InitMemory /\ [][NextMemory]_vars

---------------------------------------------------------------------------
(* Properties of the tool layer and the Command Runner (under Spec).       *)

\* C1: in read-only mode a call of any of the thirteen write tools never reaches
\* the Command Runner and spawns no subprocess; it returns a failure envelope.
C1_ReadOnlyBlocksWriteTools ==
    (serverConfig.readOnlyMode /\ call.tool \in WriteTools) =>
        /\ pc = "returned"
        /\ ~call.reachedRunner
        /\ child.state = "none"
        /\ timeoutHandle = "none"
        /\ ~envelope.ok
        /\ envelope.hasError
        /\ envelope.error.code \in {"P4_INVALID_ARGS", "P4_READONLY_MODE"}

\* a write tool called with valid arguments in read-only mode
C1_Witness ==
    /\ serverConfig.readOnlyMode
    /\ call.tool = "p4.changelist.update"
    /\ validateChangelist(call.args.changelist)
    /\ envelope.error.code = "P4_READONLY_MODE"

\* C2: no returned envelope contains the plaintext value of P4PASSWD, wherever
\* the password was configured.
C2_NoPlaintextPassword ==
    pc = "returned" =>
        /\ \A k \in DOMAIN envelope.configUsed : envelope.configUsed[k] \notin Secrets
        /\ call.tool = "p4.config.detect" =>
               \A i \in 1..Len(envelope.result.items) :
                   \A k \in EnvKeys : envelope.result.items[i][k] \notin Secrets

\* C3: when the timeout of a runner call elapses before the subprocess exits,
\* the subprocess is sent SIGTERM and the failure envelope has code P4_TIMEOUT.
C3_TimeoutYieldsTimeoutCode ==
    timeoutHandle = "fired" =>
        /\ child.killed
        /\ pc = "returned"
        /\ ~envelope.ok
        /\ envelope.error.code = "P4_TIMEOUT"

\* the non-blank lines of a text, in order
NonBlankLines(text) == SelectSeq(SplitLines(text), LAMBDA line : ~IsBlank(line))

\* C4: an envelope returned by P4Runner.run with ok = true has no error; one with
\* ok = false has an error with a code and no warnings; exit code 0 with
\* non-empty stderr yields ok = true with the non-blank stderr lines as warnings.
C4_EnvelopeInvariant ==
    (pc = "returned" /\ call.reachedRunner) =>
        /\ envelope.ok => ~envelope.hasError
        /\ ~envelope.ok =>
               /\ envelope.hasError
               /\ envelope.error.code # Undef
               /\ ~envelope.hasWarnings
               /\ envelope.warnings = <<>>
        /\ (child.state = "closed" /\ child.exit = {0} /\ child.stderr # <<>>) =>
               /\ envelope.ok
               /\ envelope.warnings = NonBlankLines(child.stderr)
               /\ envelope.hasWarnings <=> NonBlankLines(child.stderr) # <<>>

\* exit code 0 with a stderr of which one line is blank and two are not
C4_Witness ==
    /\ pc = "returned"
    /\ call.tool = "run"
    /\ child.state = "closed"
    /\ child.exit = {0}
    /\ Len(SplitLines(child.stderr)) = 3
    /\ envelope.ok
    /\ Len(envelope.warnings) = 2

\* C5: whenever the subprocess exits with code 0 the tool function that invoked
\* it returns a success envelope and raises no exception, whatever the stdout.
C5_ExitZeroYieldsSuccess ==
    (pc \in {"returned", "threw"} /\ child.state = "closed" /\ child.exit = {0}) =>
        /\ pc = "returned"
        /\ envelope.ok

InvalidArgs(tool, args) ==
    IF tool = "p4.add"
    THEN \/ ~validateFiles(args.files)
         \/ (TruthyText(args.changelist) /\ ~validateChangelist(args.changelist))
         \/ ~validateWorkspacePath(args.workspacePath)
    ELSE FilesMissing(args.files)

ExpectedRejection(tool, args) ==
    IF InvalidArgs(tool, args) THEN "P4_INVALID_ARGS"
    ELSE IF serverConfig.readOnlyMode THEN "P4_READONLY_MODE"
    ELSE IF tool = "p4.delete" /\ serverConfig.disableDelete THEN "P4_DELETE_DISABLED"
    ELSE Proceed

\* C9: p4.add and p4.delete reject in the order P4_INVALID_ARGS, then
\* P4_READONLY_MODE, then (p4.delete only) P4_DELETE_DISABLED, and a rejected call
\* spawns no subprocess.
C9_RejectionPrecedence ==
    (pc # "idle" /\ call.tool \in {"p4.add", "p4.delete"}) =>
        LET expected == ExpectedRejection(call.tool, call.args)
        IN  IF expected # Proceed
            THEN /\ pc = "returned"
                 /\ envelope.hasError
                 /\ envelope.error.code = expected
                 /\ ~call.reachedRunner
                 /\ child.state = "none"
            ELSE call.reachedRunner

\* p4.delete with valid files while both read-only mode and the delete guard hold
C9_Witness ==
    /\ call.tool = "p4.delete"
    /\ ~FilesMissing(call.args.files)
    /\ serverConfig.readOnlyMode
    /\ serverConfig.disableDelete
    /\ pc = "returned"
    /\ envelope.error.code = "P4_READONLY_MODE"

\* C10: when a runner call is given explicit input text, exactly that text is
\* written to the standard input of the subprocess, which is then closed.
C10_StdinWritten ==
    (child.state # "none" /\ call.opts.hasStdin) =>
        /\ child.stdin = "written-and-closed"
        /\ child.stdinText = call.opts.stdin

FileConfig == IF configFile.state = "present" THEN configFile.config ELSE NoEnv

CredentialKeys == {"P4PORT", "P4USER", "P4CLIENT", "P4PASSWD"}

C16_ProcessEnvironmentWins ==
    (child.state # "none" /\ call.tool # "run") =>
        \A k \in CredentialKeys :
            (Truthy(processEnv[k]) /\ Truthy(FileConfig[k])) =>
                child.env[k] = processEnv[k]

\* C18: with P4PORT, P4USER and P4CLIENT all set in the process environment,
\* validateEnvironment of the resolution result reports the configuration valid
\* with no errors, also when no config file was found.
C18_EnvironmentOnlyIsValid ==
    (/\ pc = "returned"
     /\ call.tool = "p4.config.detect"
     /\ \A k \in {"P4PORT", "P4USER", "P4CLIENT"} : Truthy(processEnv[k])) =>
        /\ ~envelope.hasWarnings
        /\ envelope.warnings = <<>>

---------------------------------------------------------------------------
(* Termination of P4Runner.run (under SpecRunner).                         *)

\* a runner call that got past the memory pre-check
Spawned == pc # "idle" /\ call.reachedRunner /\ call.rss <= call.opts.maxMemoryMB

\* C14: with a positive timeout every call of run eventually returns an envelope
\* even if the child never exits; with a timeout of zero or less no timer is
\* armed, the runner never kills the child, and the call returns exactly when the
\* child closes or fails to spawn.
C14_TimeoutBoundsRun ==
    /\ [](Spawned /\ call.opts.timeout <= 0 =>
             /\ timeoutHandle = "none"
             /\ ~child.killed
             /\ pc = "running" <=> child.state = "running"
             /\ pc = "returned" <=> child.state \in {"closed", "failed"})
    /\ [](Spawned /\ call.opts.timeout > 0 /\ pc = "running" => timeoutHandle = "armed")
    /\ (pc = "running" /\ call.opts.timeout > 0) ~> (pc = "returned")

\* a call with a positive timeout ended by its timer
C14_Witness ==
    /\ call.tool = "run"
    /\ call.opts.timeout > 0
    /\ timeoutHandle = "fired"
    /\ child.killed
    /\ pc = "returned"

\* C28: the outcome of each run call is decided by the first of natural close,
\* spawn error and timeout expiry; later events never change the returned
\* envelope; when the process closes or errors before the timeout the timer is
\* cancelled and no termination signal is ever sent to that process.
C28_FirstEventDecides ==
    /\ [][(pc \in {"returned", "threw"} /\ pc' # "idle") =>
              (pc' = pc /\ envelope' = envelope)]_vars
    /\ [](Spawned /\ pc = "returned" =>
             envelope =
                 CASE child.state = "closed" ->
                          runResolved(call.opts, child.env, ExitCodeOf(child.exit),
                                      child.stdout, child.stderr)
                   [] child.state = "failed" -> runRejected(child.env, SpawnErrorText)
                   [] child.state = "signalled" -> runRejected(child.env, TimeoutErrorText))
    /\ [](child.state \in {"closed", "failed"} =>
             timeoutHandle \in {"none", "cleared"} /\ ~child.killed)

\* the timer decided a call and the child's close came afterwards
C28_Witness ==
    /\ call.tool = "run"
    /\ pc = "returned"
    /\ child.state = "signalled"
    /\ "close" \in child.late
    /\ envelope = runRejected(child.env, TimeoutErrorText)

---------------------------------------------------------------------------
(* Properties of the rate limiter (under SpecRate).                        *)

\* C6: with rate limiting enabled and a maximum of N >= 1 requests per window,
\* the k-th check of one identifier inside a window (k <= N) is allowed with
\* remaining quota N - k, and the (N+1)-th check inside that window returns
\* allowed = false, remaining 0 and blockedUntil = now + blockDurationMs.
C6_QuotaThenBlock ==
    (complianceConfig.enableRateLimiting /\ lastCheck.id # "none") =>
        LET N == rateConfig.maxRequests
            k == lastCheck.nth
        IN  /\ k <= N =>
                   /\ lastCheck.result.allowed
                   /\ lastCheck.result.remaining = N - k
                   /\ lastCheck.post.count = k
            /\ k = N + 1 =>
                   /\ ~lastCheck.result.allowed
                   /\ lastCheck.result.remaining = 0
                   /\ lastCheck.result.blockedUntil
                          = lastCheck.time + rateConfig.blockDurationMs
                   /\ lastCheck.post.blockedUntil = lastCheck.result.blockedUntil

\* the third check of a window of two requests, made after the clock has moved
C6_Witness ==
    /\ complianceConfig.enableRateLimiting
    /\ rateConfig.maxRequests = 2
    /\ rateConfig.blockDurationMs > 0
    /\ lastCheck.nth = 3
    /\ lastCheck.time > 1
    /\ ~lastCheck.result.allowed
    /\ lastCheck.result.blockedUntil > lastCheck.time

\* C7: for every window length and block duration, a check of a blocked
\* identifier made once its blockedUntil has passed is allowed and resets the
\* count to 1, starting a new window.
C7_UnblockResetsWindow ==
    (/\ complianceConfig.enableRateLimiting
     /\ lastCheck.id # "none"
     /\ lastCheck.pre.exists
     /\ lastCheck.pre.blockedUntil # 0
     /\ lastCheck.time > lastCheck.pre.blockedUntil) =>
        /\ lastCheck.result.allowed
        /\ lastCheck.post.count = 1
        /\ lastCheck.post.blockedUntil = 0
        /\ lastCheck.post.resetTime = lastCheck.time + rateConfig.windowMs

\* C8: while now < blockedUntil of an identifier every check of it is rejected
\* whatever its count, and such a check leaves the count, the window reset time
\* and blockedUntil of the record as they were.
C8_BlockedStaysBlocked ==
    (/\ lastCheck.id # "none"
     /\ lastCheck.pre.exists
     /\ lastCheck.pre.blockedUntil # 0
     /\ lastCheck.time < lastCheck.pre.blockedUntil) =>
        /\ ~lastCheck.result.allowed
        /\ lastCheck.result.remaining = 0
        /\ lastCheck.post = lastCheck.pre
        /\ rateLimitStore[lastCheck.id] = lastCheck.pre

\* a check of a blocked identifier whose window has already expired
C8_Witness ==
    /\ lastCheck.id # "none"
    /\ lastCheck.pre.exists
    /\ lastCheck.pre.blockedUntil # 0
    /\ lastCheck.time < lastCheck.pre.blockedUntil
    /\ lastCheck.time > lastCheck.pre.resetTime
    /\ ~lastCheck.result.allowed

---------------------------------------------------------------------------
(* Properties of the pure functions (under SpecPure).                      *)

\* C11: a run whose exit code is non-zero and whose stderr contains
\* "Access denied" yields P4_AUTH_FAILED; exit code 127 with no recognizable
\* message yields P4_NOT_FOUND.
C11_AccessDeniedIsAuthFailed ==
    pureCall.fn = "mapError" =>
        /\ (pureCall.exitCode # 0 /\ Includes(pureCall.stderr, <<"Access denied">>)) =>
               pureResult.code = "P4_AUTH_FAILED"
        /\ (pureCall.exitCode = 127 /\ pureCall.stderr = <<"x">> /\ pureCall.stdout = <<>>) =>
               pureResult.code = "P4_NOT_FOUND"

\* a failure signature found in the stderr or in the stdout text
Recognized(stderr, stdout, phrase) ==
    Includes(stderr, <<phrase>>) \/ Includes(stdout, <<phrase>>)

\* the code of the first matching signature, in the documented order
ExpectedCode(exitCode, stderr, stdout) ==
    LET Has(phrase) == Recognized(stderr, stdout, phrase)
    IN  IF Has("Perforce client error") \/ exitCode = 127 \/ exitCode = -1
        THEN "P4_NOT_FOUND"
        ELSE IF Has("Perforce password") \/ Has("Access denied") THEN "P4_AUTH_FAILED"
        ELSE IF Has("Client '") /\ Has("' unknown") THEN "P4_CLIENT_UNKNOWN"
        ELSE IF Has("Connect to server failed") \/ Has("TCP connect")
        THEN "P4_CONNECTION_FAILED"
        ELSE IF Has("timeout") THEN "P4_TIMEOUT"
        ELSE IF Has("not under client") THEN "P4_NOT_UNDER_CLIENT"
        ELSE "P4_COMMAND_FAILED"

\* C12: the error code is that of the first failure signature, in the order
\* not-found, authentication, unknown client, connection, timeout,
\* not-under-client, found in the combined stderr and stdout text (a signature in
\* stdout counts also when stderr is non-empty); with no match the code is
\* P4_COMMAND_FAILED and the error carries the raw text and the exit code.
C12_SignatureOrderOverCombinedText ==
    pureCall.fn = "mapError" =>
        /\ pureResult.code
               = ExpectedCode(pureCall.exitCode, pureCall.stderr, pureCall.stdout)
        /\ pureResult.exitCode = pureCall.exitCode
        /\ pureResult.stderr = pureCall.stderr

\* the directories of the chain that hold a file of the config name
Holders(startPath, files) == {d \in Root..startPath : files[d] # "absent"}

Nearest(startPath, files) ==
    CHOOSE d \in Holders(startPath, files) : \A e \in Holders(startPath, files) : e <= d

OnlyMarker(environment) ==
    /\ Truthy(environment["P4CONFIG"])
    /\ \A k \in EnvKeys \ {"P4CONFIG"} : environment[k] = Undef

\* C17 as stated: findConfig returns the config file of the nearest directory of
\* the chain from the start directory up to and including the root that has the
\* file (found, project root = that directory), and found = false with an empty
\* config and only the marker key when no directory of the chain has it.
C17_NearestConfigFound ==
    pureCall.fn = "findConfig" =>
        IF Holders(pureCall.startPath, pureCall.files) = {}
        THEN /\ ~pureResult.found
             /\ pureResult.config = NoEnv
             /\ OnlyMarker(pureResult.environment)
        ELSE /\ pureResult.found
             /\ pureResult.projectRoot = Nearest(pureCall.startPath, pureCall.files)

\* C17, amended: the nearest file of the chain decides.  If it can be read the
\* result is found with that directory as project root; if it cannot be read, or
\* no directory has the file, the result is found = false with an empty config
\* and only the marker key.  The search ends for every chain.
C17_NearestReadableConfigFound ==
    pureCall.fn = "findConfig" =>
        IF Holders(pureCall.startPath, pureCall.files) # {}
           /\ pureCall.files[Nearest(pureCall.startPath, pureCall.files)] = "readable"
        THEN /\ pureResult.found
             /\ pureResult.projectRoot = Nearest(pureCall.startPath, pureCall.files)
             /\ pureResult.configPath = pureResult.projectRoot
             /\ pureResult.config = SampleConfig
        ELSE /\ ~pureResult.found
             /\ pureResult.config = NoEnv
             /\ OnlyMarker(pureResult.environment)

\* the chain /a/b/c with a config file at /a and another at the root
C17_Witness ==
    /\ pureCall.fn = "findConfig"
    /\ pureCall.startPath = 3
    /\ pureCall.files = (0 :> "readable" @@ 1 :> "readable" @@ 2 :> "absent" @@ 3 :> "absent")
    /\ pureResult.found
    /\ pureResult.projectRoot = 1

---------------------------------------------------------------------------
(* Properties of the audit log (under SpecAudit).                          *)

\* C19: with audit logging enabled, every tool invocation handled by the
\* front-end appends exactly one audit entry: tagged success when it completes,
\* error when it fails, blocked when the rate limiter blocks it.
C19_OneEntryPerInvocation ==
    (lastHandled.name # "none" /\ lastHandled.logging) =>
        lastHandled.appended =
            IF lastHandled.outcome = "blocked" THEN <<"blocked">>
            ELSE IF lastHandled.outcome = "threw" THEN <<"error">>
            ELSE <<"success">>

\* C20: whenever audit logging is disabled, also after it was enabled, entries
\* were logged and it was disabled again, logAuditEntry changes nothing and
\* getAuditLog and exportAuditLog return no entries.
C20_DisabledAuditIsEmpty ==
    /\ (lastHandled.name # "none" /\ ~lastHandled.logging) => lastHandled.appended = <<>>
    /\ (lastQuery.fn # "none" /\ ~lastQuery.logging) => lastQuery.entries = <<>>

---------------------------------------------------------------------------
(* Properties of the audit-log methods (under SpecAuditLog).               *)

RetentionMs == complianceConfig.auditLogRetentionDays * MsPerDay
OlderThanWindow(e, t) == t - e.timestamp > RetentionMs
YoungerThanWindow(e, t) == t - e.timestamp < RetentionMs

\* what a purge at time t leaves: nothing older than the window, and every
\* younger entry of the log before the call
Purged(before, after, t) ==
    /\ \A i \in 1..Len(after) : ~OlderThanWindow(after[i], t)
    /\ \A i \in 1..Len(before) :
           YoungerThanWindow(before[i], t) => \E j \in 1..Len(after) : after[j] = before[i]

\* C21 (as stated): immediately after every logAuditEntry call and every
\* periodic sweep the audit log holds no entry older than the retention window,
\* and every younger entry that was in the log before the call is still in it.
C21_PurgedAfterEveryCall ==
    lastQuery.fn \in {"logAuditEntry", "cleanupAuditLogs"} =>
        Purged(lastQuery.before, lastQuery.entries, lastQuery.time)

\* C21 (amended): the same, for every logAuditEntry call made while audit
\* logging is enabled and for every periodic sweep.
C21_PurgedAfterEveryWrite ==
    \/ lastQuery.fn = "cleanupAuditLogs"
    \/ lastQuery.fn = "logAuditEntry" /\ lastQuery.logging
    => Purged(lastQuery.before, lastQuery.entries, lastQuery.time)

\* a write that purged an expired entry and kept a younger one
C21_Witness ==
    /\ lastQuery.fn = "logAuditEntry"
    /\ lastQuery.logging
    /\ \E i \in 1..Len(lastQuery.before) :
           OlderThanWindow(lastQuery.before[i], lastQuery.time)
    /\ \E i \in 1..Len(lastQuery.before) :
           YoungerThanWindow(lastQuery.before[i], lastQuery.time)
    /\ Len(lastQuery.entries) = 2

\* C29: getAuditLog is a pure query: with any filter or none it leaves the
\* stored audit log unchanged in content and order, so a later exportAuditLog
\* lists the entries in the order in which they were appended.
C29_GetAuditLogIsPure ==
    /\ [][(\E filter \in AuditFilters : GetAuditLog(filter)) => auditLog' = auditLog]_vars
    /\ [](lastQuery.fn = "exportAuditLog" =>
              \A i, j \in 1..Len(lastQuery.entries) :
                  i < j => lastQuery.entries[i].timestamp <= lastQuery.entries[j].timestamp)

---------------------------------------------------------------------------
(* Properties of sanitizeInput (under SpecSanitize).                       *)

Sanitized == pureCall.fn = "sanitizeInput"
Dangerous == "Potentially dangerous regex pattern detected"

\* C22 (as stated): valid=false exactly when a warning contains "dangerous";
\* a filespec containing ".." and not starting with "//" yields a traversal
\* warning with valid=true; every filespec and path input is returned valid;
\* a pattern containing a lookbehind yields a "dangerous" warning, valid=false.
C22_ValidUnlessDangerous ==
    Sanitized =>
        /\ ~pureResult.valid <=> pureResult.warnings \cap DangerousWarnings # {}
        /\ pureCall.type \in {"filespec", "path"} => pureResult.valid
        /\ (/\ pureCall.type = "filespec"
            /\ Includes(pureCall.input, <<"..">>)
            /\ ~StartsWith(pureCall.input, <<"/", "/">>))
           => /\ "Relative path traversal detected in filespec" \in pureResult.warnings
              /\ pureResult.valid
        /\ (pureCall.type = "pattern" /\ Includes(pureCall.input, <<"(", "?", "<">>))
           => Dangerous \in pureResult.warnings /\ ~pureResult.valid

\* C22 (amended): the first two parts as stated; the traversal warning and the
\* lookbehind warning when input sanitization is enabled, the filespec does not
\* start with "//" once trimmed, and the lookbehind lies within the first 1000
\* characters of the trimmed pattern.
C22_ValidUnlessDangerousWhenEnabled ==
    Sanitized =>
        /\ ~pureResult.valid <=> pureResult.warnings \cap DangerousWarnings # {}
        /\ pureCall.type \in {"filespec", "path"} => pureResult.valid
        /\ (/\ complianceConfig.enableInputSanitization
            /\ pureCall.type = "filespec"
            /\ Includes(pureCall.input, <<"..">>)
            /\ ~StartsWith(Trim(pureCall.input), <<"/", "/">>))
           => /\ "Relative path traversal detected in filespec" \in pureResult.warnings
              /\ pureResult.valid
        /\ (/\ complianceConfig.enableInputSanitization
            /\ pureCall.type = "pattern"
            /\ Includes(Substring(Trim(pureCall.input), PatternMaxLength), <<"(", "?", "<">>))
           => Dangerous \in pureResult.warnings /\ ~pureResult.valid

\* a pattern with a lookbehind was rejected
C22_Witness ==
    /\ Sanitized
    /\ pureCall.type = "pattern"
    /\ pureCall.input = <<"(", "?", "<">>
    /\ ~pureResult.valid

\* the constructs the sanitizer is meant to flag in a pattern
HasEmbeddedNull(text) == Includes(text, <<NullChar>>) \/ Includes(text, <<"\\", "0">>)
HasLookbehind(text) == Includes(text, <<"(", "?", "<">>)
HasNestedQuantifier(text) ==
    \E i, j \in 1..Len(text) :
        /\ i < j
        /\ text[i] = "("
        /\ \E k \in (i + 1)..(j - 1) : text[k] \in {"*", "+"}
        /\ text[j] = ")"
        /\ j < Len(text)
        /\ text[j + 1] \in {"*", "+"}

\* C25: for input kind pattern a "dangerous" warning is raised only if the
\* pattern contains an embedded null, a lookbehind or a nested-quantifier
\* shape; every other pattern of at most 1000 characters is returned valid
\* with no warnings, and p4.grep does not reject it.
C25_OnlyDangerousPatternsRejected ==
    (Sanitized /\ pureCall.type = "pattern") =>
        LET flagged == \/ HasEmbeddedNull(pureCall.input)
                       \/ HasLookbehind(pureCall.input)
                       \/ HasNestedQuantifier(pureCall.input)
        IN  /\ Dangerous \in pureResult.warnings => flagged
            /\ (~flagged /\ TextLength(pureCall.input) <= PatternMaxLength) =>
                   /\ pureResult.valid
                   /\ pureResult.warnings = {}
                   /\ pureCall.input # <<>> => p4GrepPattern(pureCall.input) = "PROCEED"

---------------------------------------------------------------------------
(* Properties of the tag-value parser (under SpecPure).                    *)

Parsed == pureCall.fn = "parseZtagOutput"

TagLines(lines) == {i \in 1..Len(lines) : TagMatch(Trim(lines[i]))}
SameBlock(lines, i, j) == \A k \in i..j : ~IsBlank(lines[k])
\* the first tag line of each block, in input order
Leaders(lines) ==
    {i \in TagLines(lines) : \A j \in TagLines(lines) : j < i => ~SameBlock(lines, j, i)}
RawValue(line) == Trim(SubSeq(Trim(line), 3, Len(Trim(line))))
BooleanWords == {"true", "yes", "on", "false", "no", "off"}

\* the coercion of one raw value
Coerced(raw, v) ==
    IF MatchesNumber(raw) THEN v.kind = "number"
    ELSE IF Len(raw) = 1 /\ ToLowerCase(raw)[1] \in BooleanWords
    THEN v = BooleanValue(ToLowerCase(raw)[1] \in {"true", "yes", "on"})
    ELSE v = StringValue(raw)

---------------------------------------------------------------------------
(* Properties of the front-end's rate-limit rejection (under SpecAudit).   *)

\* C30: when the front-end rejects a call because of rate limiting, the time it
\* tells the caller to retry after is never earlier than the end of the block
\* on that tool, so a new call made from that time on is allowed.
C30_RetryAfterEndsBlock ==
    lastHandled.outcome = "blocked" =>
        /\ lastHandled.retryAfter >= lastHandled.blockedUntil
        /\ ~IsBlocked(rateLimitStore[lastHandled.name], lastHandled.retryAfter)

---------------------------------------------------------------------------
(* Release of a blocked identifier (under SpecUnblock).                    *)

\* the clock of the model reaches the time at which the block is over
ClockReaches(identifier) ==
    rateLimitStore[identifier].resetTime + rateConfig.blockDurationMs <= MaxTime

\* C27: a blocked identifier is never blocked forever: provided time keeps
\* advancing, whatever further checks are made (also during the block and right
\* after it ends), eventually a check of that identifier is allowed.
C27_BlockEnds ==
    \A identifier \in Identifiers :
        (IsBlocked(rateLimitStore[identifier], now) /\ ClockReaches(identifier))
            ~> (lastCheck.id = identifier /\ lastCheck.result.allowed)

\* a check made right after a block ended, inside the window, blocked again,
\* and a later check was allowed
C27_Witness ==
    /\ lastCheck.id = "p4.add"
    /\ lastCheck.result.allowed
    /\ lastCheck.pre.blockedUntil # 0
    /\ lastCheck.pre.count > rateConfig.maxRequests + 1


---------------------------------------------------------------------------
(* Properties of tool invocations in flight together (SpecInFlight).       *)

\* the invocations whose check counted on the same window of the same record
SameWindow(i, j) ==
    /\ inFlight[i].counted /\ inFlight[j].counted
    /\ inFlight[i].name = inFlight[j].name
    /\ inFlight[i].window = inFlight[j].window

\* C24: however the invocations in flight interleave, no two of them act on the
\* same count value of a record, and of the checks of an identifier between two
\* resets of its window at most maxRequests are allowed.
C24_AtomicCheckAndIncrement ==
    /\ \A i, j \in Invocations :
           (i # j /\ SameWindow(i, j)) => inFlight[i].count # inFlight[j].count
    /\ \A i \in Invocations :
           inFlight[i].counted =>
               Cardinality({j \in Invocations : SameWindow(i, j) /\ inFlight[j].allowed})
                   <= rateConfig.maxRequests

\* three requests received before any handler ran; two are suspended in their
\* tool functions in the same window and the third was rejected in it
C24_Witness ==
    /\ inFlight[1].state = "running"
    /\ inFlight[2].state = "running"
    /\ inFlight[3].state = "blocked"
    /\ SameWindow(1, 2) /\ SameWindow(2, 3)
    /\ \A i \in Invocations : ~inFlight[i].seen.exists



---------------------------------------------------------------------------
(* Properties of the memory checks (SpecMemory).                           *)

\* C26: with the memory limits disabled (P4_ENABLE_MEMORY_LIMITS=false), whatever
\* the memory in use, checkMemoryUsage reports within-limits with no warnings and
\* no call of the Command Runner returns the memory-limit error.
C26_NoMemoryFailureWhenDisabled ==
    ~complianceConfig.enableMemoryLimits =>
        /\ pureCall.fn = "checkMemoryUsage" =>
               (pureResult.withinLimits /\ pureResult.warnings = <<>>)
        /\ (pc # "idle" /\ call.reachedRunner /\ envelope.hasError) =>
               envelope.error.code # "P4_MEMORY_LIMIT"


=============================================================================
